---- MODULE Spec2Model ----
(***************************************************************************)
(* Audio-reactive visualizer (crates music-visualizer-native and           *)
(* music-visualizer): feature extraction, the per-frame particle step and  *)
(* the hand-off of the capture buffer between the capture callback and the *)
(* render loop.                                                            *)
(*                                                                         *)
(* f32 quantities are modelled in fixed point: the integer Scale stands    *)
(* for 1.0, products with the constants 0.15 / 0.1 / 0.3 / 0.6 are taken   *)
(* exactly and then floored.  NaN is a separate value.  A particle's life   *)
(* and the frame time dt are f32 values kept exactly, as multiples of      *)
(* 2^-30, and every subtraction is rounded as IEEE 754 binary32 rounds it. *)
(***************************************************************************)
EXTENDS Integers, Sequences, FiniteSets, TLC

VARIABLES
    app,             \* which program runs: "native" or "web"
    audio,           \* the AudioAnalysis struct of the app
    last,            \* history: the last extraction call (op, state before, arguments)
    config,          \* VisualizerConfig fields the frame loop reads
    visualizer_mode, \* VisualizerMode
    source,          \* web: which branch update_audio takes
    particles,       \* Vec<Particle>, oldest first; each [id, life]
    audio_data,      \* the buffer shared with the capture callback
    audio_buf,       \* native: the render loop's clone of audio_data
    lock,            \* native: holder of the Mutex around audio_data
    pc,              \* position of the render loop inside update()
    cb,              \* native: the capture callback [pc, data, i]
    frame,           \* frame-local record: dt, values read by each step
    calls,           \* number of extraction calls / frames so far
    fractal,         \* one draw_fractal call: its inputs, the draw_branch
                     \* call stack and what has been painted so far
    unknown_visualizer, \* UnknownPleasuresVisualizer (last_amplitudes)
    drawing,         \* history of the UnknownPleasuresVisualizer::draw calls
    playlist,        \* PlaylistState: tracks, current_index, is_playing,
                     \* is_shuffled, shuffle_order
    playlist_op      \* history: the last playlist operation and the state before

vars == <<app, audio, last, config, visualizer_mode, source, particles,
          audio_data, audio_buf, lock, pc, cb, frame, calls,
          fractal, unknown_visualizer, drawing, playlist, playlist_op>>

----------------------------------------------------------------------------
(* Fixed-point unit: the integer that stands for the f32 value 1.0 *)

Scale == 1000

\* the f32 NaN (0.0 / 0.0); no arithmetic result of the model reaches it
NaN == 0 - 1000000

----------------------------------------------------------------------------
(* Bounds *)

MaxCalls == 2
MaxBufLen == 8
MaxFftLen == 16
MaxFrames == 3
FrameBufLen == 2

\* sample values offered to the raw-sample path (Scale stands for 1.0)
Samples == {0 - Scale, 0, Scale \div 2}

\* byte values offered to the byte path
Bytes == {0, 160, 255}

\* an array whose first element is a and whose other elements are b
Step(len, a, b) == [i \in 1..len |-> IF i = 1 THEN a ELSE b]

BufLens == {0, 1, 2, MaxBufLen - 1, MaxBufLen, MaxBufLen + 3}

\* the length of the shared capture buffer
CaptureLen == 512

\* the buffer -1, 1, -1, 1, ... of length len
Alternating(len) == [i \in 1..len |-> IF i % 2 = 1 THEN 0 - Scale ELSE Scale]

CpalBuffers ==
    {Step(len, a, b) : len \in BufLens, a \in Samples, b \in Samples}
    \cup {Alternating(CaptureLen)}

FftLens == {0, 1, MaxFftLen - 1, MaxFftLen}

FreqArrays == {Step(len, a, b) : len \in FftLens, a \in Bytes, b \in Bytes}

TimeArrays == {<<>>, <<128>>, <<0, 255>>}

----------------------------------------------------------------------------
(* Fixed-point arithmetic *)

Abs(x) == IF x < 0 THEN 0 - x ELSE x

Min(x, y) == IF x < y THEN x ELSE y

Max(x, y) == IF x > y THEN x ELSE y

\* the sum of s[lo..hi], by halves
RECURSIVE SumIn(_, _, _)
SumIn(s, lo, hi) ==
    IF lo > hi THEN 0
    ELSE IF lo = hi THEN s[lo]
    ELSE LET m == (lo + hi) \div 2
         IN  SumIn(s, lo, m) + SumIn(s, m + 1, hi)

SumSeq(s) == SumIn(s, 1, Len(s))

\* the largest of 0 and s[lo..hi], by halves
RECURSIVE MaxIn(_, _, _)
MaxIn(s, lo, hi) ==
    IF lo > hi THEN 0
    ELSE IF lo = hi THEN Max(s[lo], 0)
    ELSE LET m == (lo + hi) \div 2
         IN  Max(MaxIn(s, lo, m), MaxIn(s, m + 1, hi))

MaxSeq(s) == MaxIn(s, 1, Len(s))

\* floor of the square root of n, found by bisection in lo..hi
RECURSIVE SqrtIn(_, _, _)
SqrtIn(n, lo, hi) ==
    IF lo >= hi THEN lo
    ELSE LET m == (lo + hi + 1) \div 2
         IN  IF m * m <= n THEN SqrtIn(n, m, hi) ELSE SqrtIn(n, lo, m - 1)

Sqrt(n) == SqrtIn(n, 0, 46340)

\* the Rust slice s[start..end] (end exclusive)
Slice(s, start, end) == [i \in 1..(end - start) |-> s[start + i]]

\* smoothed + (raw - smoothed) * 0.15
Smooth15(old, raw) ==
    IF old = NaN \/ raw = NaN THEN NaN
    ELSE old + ((raw - old) * 15) \div 100

----------------------------------------------------------------------------
(* music-visualizer-native: AudioAnalysis *)

Zeros(n) == [i \in 1..n |-> 0]

NativeNew(n) ==
    [bass |-> 0, low_mid |-> 0, mid |-> 0, high_mid |-> 0, treble |-> 0,
     volume |-> 0, peak |-> 0, beat |-> FALSE, beat_intensity |-> 0,
     spectral_centroid |-> 0, spectral_flux |-> 0,
     smooth_bass |-> 0, smooth_mid |-> 0, smooth_treble |-> 0,
     smooth_volume |-> 0,
     frequency_data |-> Zeros(n), time_data |-> Zeros(n),
     prev_frequency_data |-> Zeros(n)]

\* new_freq: (x.abs() * 255.0).min(255.0), in units of 1/Scale
CpalFreq(buffer) ==
    [i \in 1..Len(buffer) |-> Min(Abs(buffer[i]) * 255, 255 * Scale)]

\* (mutation of CpalFlux: every difference summed, not only the positive ones)
CpalFluxSigned(new_freq, prev) ==
    SumSeq([i \in 1..Len(new_freq) |->
        new_freq[i] - (IF i <= Len(prev) THEN prev[i] ELSE 0)])

\* the flux loop: positive differences against prev, 0.0 past its end
CpalFlux(new_freq, prev) ==
    SumSeq([i \in 1..Len(new_freq) |->
        LET prev_v == IF i <= Len(prev) THEN prev[i] ELSE 0
            diff == new_freq[i] - prev_v
        IN  IF diff > 0 THEN diff ELSE 0])

\* (mutation of CpalBands: treble ends at the eighth segment, not at len)
CpalBandsEightSegments(len) ==
    LET band_size == len \div 8
    IN  [bass     |-> <<0, Max(band_size, 1)>>,
         low_mid  |-> <<band_size, Max(band_size * 2, band_size + 1)>>,
         mid      |-> <<band_size * 2, Max(band_size * 4, band_size * 2 + 1)>>,
         high_mid |-> <<band_size * 4, Min(band_size * 6, len)>>,
         treble   |-> <<band_size * 6, band_size * 8>>]

\* the five ranges as <<start, end>> pairs (end exclusive)
CpalBands(len) ==
    LET band_size == len \div 8
    IN  [bass     |-> <<0, Max(band_size, 1)>>,
         low_mid  |-> <<band_size, Max(band_size * 2, band_size + 1)>>,
         mid      |-> <<band_size * 2, Max(band_size * 4, band_size * 2 + 1)>>,
         high_mid |-> <<band_size * 4, Min(band_size * 6, len)>>,
         treble   |-> <<band_size * 6, len>>]

\* the closure avg: mean absolute amplitude of buffer[r], 0.0 when r is empty
CpalAvg(buffer, r) ==
    IF r[1] >= r[2] THEN 0
    ELSE LET part == Slice(buffer, r[1], r[2])
         IN  SumSeq([i \in 1..Len(part) |-> Abs(part[i])]) \div (r[2] - r[1])

\* energy_jump as the raw-sample path computes it: after smooth_bass was updated
CpalEnergyJump(bass, smooth_before, smooth_after) == bass - smooth_after

\* (mutation of CpalRms: the root of the sum of squares, not of their mean)
CpalRmsOfSum(buffer) ==
    Sqrt(SumSeq([i \in 1..Len(buffer) |-> buffer[i] * buffer[i]]))

\* line 45: (sum of x * x / len).sqrt()
CpalRms(buffer) ==
    Sqrt(SumSeq([i \in 1..Len(buffer) |-> buffer[i] * buffer[i]]) \div Len(buffer))

update_from_cpal(a, buffer) ==
    LET len == Len(buffer)
    IN  IF len = 0 THEN a
        ELSE
        LET rms == CpalRms(buffer)
            new_freq == CpalFreq(buffer)
            flux == CpalFlux(new_freq, a.prev_frequency_data)
            b == CpalBands(len)
            bass == CpalAvg(buffer, b.bass)
            mid == CpalAvg(buffer, b.mid)
            treble == CpalAvg(buffer, b.treble)
            smooth_bass == Smooth15(a.smooth_bass, bass)
            energy_jump == CpalEnergyJump(bass, a.smooth_bass, smooth_bass)
            beat == energy_jump > Scale \div 10 /\ bass > (3 * Scale) \div 10
        IN  [a EXCEPT
                !.time_data = buffer,
                !.volume = rms,
                !.smooth_volume = Smooth15(a.smooth_volume, rms),
                !.peak = MaxSeq([i \in 1..len |-> Abs(buffer[i])]),
                !.spectral_flux = flux,
                !.frequency_data = new_freq,
                !.bass = bass,
                !.low_mid = CpalAvg(buffer, b.low_mid),
                !.mid = mid,
                !.high_mid = CpalAvg(buffer, b.high_mid),
                !.treble = treble,
                !.smooth_bass = smooth_bass,
                !.smooth_mid = Smooth15(a.smooth_mid, mid),
                !.smooth_treble = Smooth15(a.smooth_treble, treble),
                !.beat = beat,
                !.beat_intensity = IF beat THEN Min(energy_jump, Scale) ELSE 0,
                !.prev_frequency_data = new_freq]

----------------------------------------------------------------------------
(* music-visualizer: AudioAnalysis *)

WebNew(n) ==
    [bass |-> 0, low_mid |-> 0, mid |-> 0, high_mid |-> 0, treble |-> 0,
     volume |-> 0, peak |-> 0, beat |-> FALSE, beat_intensity |-> 0,
     spectral_centroid |-> 0, spectral_flux |-> 0,
     smooth_bass |-> 0, smooth_mid |-> 0, smooth_treble |-> 0,
     smooth_volume |-> 0,
     frequency_data |-> Zeros(n), time_data |-> Zeros(n)]

FftBands(len) ==
    [bass     |-> <<0, len \div 16>>,
     low_mid  |-> <<len \div 16, len \div 8>>,
     mid      |-> <<len \div 8, len \div 4>>,
     high_mid |-> <<len \div 4, len \div 2>>,
     treble   |-> <<len \div 2, len>>]

\* the closure calc_band_avg: sum / (range.len() * 255), 0.0 on an empty range
FftBandAvg(frequency_data, r) ==
    IF r[1] >= r[2] THEN 0
    ELSE (SumSeq(Slice(frequency_data, r[1], r[2])) * Scale) \div ((r[2] - r[1]) * 255)

\* RMS of the samples centred on 128, over 128; 0.0 / 0.0 is NaN
FftRms(time_data) ==
    IF Len(time_data) = 0 THEN NaN
    ELSE LET sq == SumSeq([i \in 1..Len(time_data) |->
                        (time_data[i] - 128) * (time_data[i] - 128)])
         IN  (Sqrt((sq * 100) \div Len(time_data)) * Scale) \div 1280

FftPeak(time_data) ==
    (MaxSeq([i \in 1..Len(time_data) |-> Abs(time_data[i] - 128)]) * Scale) \div 128

\* (mutation of FftEnergyJump: the jump taken against the updated smooth_bass)
FftEnergyJumpAfter(new_bass, smooth_before, smooth_after) == new_bass - smooth_after

\* energy_jump as the byte path computes it: before smooth_bass is updated
FftEnergyJump(new_bass, smooth_before, smooth_after) == new_bass - smooth_before

FftBassThreshold == (6 * Scale) \div 10

\* the zip of the argument with the stored array, positive differences only
FftFlux(frequency_data, stored) ==
    LET n == Min(Len(frequency_data), Len(stored))
    IN  (SumSeq([i \in 1..n |->
            LET diff == frequency_data[i] - stored[i]
            IN  IF diff > 0 THEN diff ELSE 0]) * Scale)
        \div (Len(frequency_data) * 255)

\* (mutation of FftCentroid: the centroid reset to 0.0 when there is no energy)
FftCentroidReset(old, frequency_data) ==
    LET len == Len(frequency_data)
        total_energy == SumSeq(frequency_data)
        weighted_sum == SumSeq([i \in 1..len |-> (i - 1) * frequency_data[i]])
    IN  IF total_energy > 0
        THEN (weighted_sum * Scale) \div (total_energy * len)
        ELSE 0

\* lines 100-107: written only when total_energy > 0.0
FftCentroid(old, frequency_data) ==
    LET len == Len(frequency_data)
        total_energy == SumSeq(frequency_data)
        weighted_sum == SumSeq([i \in 1..len |-> (i - 1) * frequency_data[i]])
    IN  IF total_energy > 0
        THEN (weighted_sum * Scale) \div (total_energy * len)
        ELSE old

\* (mutation of FftStore: the two arrays stored the wrong way round)
FftStoreSwapped(a, frequency_data, time_data) ==
    [a EXCEPT !.frequency_data = time_data, !.time_data = frequency_data]

\* the two stores that open update_from_fft, before its length test
FftStore(a, frequency_data, time_data) ==
    [a EXCEPT !.frequency_data = frequency_data, !.time_data = time_data]

\* (mutation of update_from_fft: the length test made before the two stores)
UpdateFromFftTestsLengthFirst(a, frequency_data, time_data) ==
    LET s == FftStore(a, frequency_data, time_data)
        len == Len(frequency_data)
    IN  IF len = 0 THEN a
        ELSE
        LET b == FftBands(len)
            new_bass == FftBandAvg(frequency_data, b.bass)
            new_mid == FftBandAvg(frequency_data, b.mid)
            new_treble == FftBandAvg(frequency_data, b.treble)
            rms == FftRms(time_data)
            smooth_bass == Smooth15(a.smooth_bass, new_bass)
            energy_jump == FftEnergyJump(new_bass, a.smooth_bass, smooth_bass)
            beat == energy_jump > Scale \div 10 /\ new_bass > FftBassThreshold
        IN  [s EXCEPT
                !.beat = beat,
                !.beat_intensity = IF beat THEN Min(energy_jump, Scale) ELSE 0,
                !.spectral_centroid = FftCentroid(a.spectral_centroid, frequency_data),
                !.spectral_flux = FftFlux(frequency_data, s.frequency_data),
                !.smooth_bass = smooth_bass,
                !.smooth_mid = Smooth15(a.smooth_mid, new_mid),
                !.smooth_treble = Smooth15(a.smooth_treble, new_treble),
                !.smooth_volume = Smooth15(a.smooth_volume, rms),
                !.bass = new_bass,
                !.low_mid = FftBandAvg(frequency_data, b.low_mid),
                !.mid = new_mid,
                !.high_mid = FftBandAvg(frequency_data, b.high_mid),
                !.treble = new_treble,
                !.volume = rms,
                !.peak = FftPeak(time_data)]

update_from_fft(a, frequency_data, time_data) ==
    LET s == FftStore(a, frequency_data, time_data)
        len == Len(frequency_data)
    IN  IF len = 0 THEN s
        ELSE
        LET b == FftBands(len)
            new_bass == FftBandAvg(frequency_data, b.bass)
            new_mid == FftBandAvg(frequency_data, b.mid)
            new_treble == FftBandAvg(frequency_data, b.treble)
            rms == FftRms(time_data)
            smooth_bass == Smooth15(a.smooth_bass, new_bass)
            energy_jump == FftEnergyJump(new_bass, a.smooth_bass, smooth_bass)
            beat == energy_jump > Scale \div 10 /\ new_bass > FftBassThreshold
        IN  [s EXCEPT
                !.beat = beat,
                !.beat_intensity = IF beat THEN Min(energy_jump, Scale) ELSE 0,
                !.spectral_centroid = FftCentroid(a.spectral_centroid, frequency_data),
                !.spectral_flux = FftFlux(frequency_data, s.frequency_data),
                !.smooth_bass = smooth_bass,
                !.smooth_mid = Smooth15(a.smooth_mid, new_mid),
                !.smooth_treble = Smooth15(a.smooth_treble, new_treble),
                !.smooth_volume = Smooth15(a.smooth_volume, rms),
                !.bass = new_bass,
                !.low_mid = FftBandAvg(frequency_data, b.low_mid),
                !.mid = new_mid,
                !.high_mid = FftBandAvg(frequency_data, b.high_mid),
                !.treble = new_treble,
                !.volume = rms,
                !.peak = FftPeak(time_data)]

\* smoothed + (raw - smoothed) * 0.1
Smooth10(old, raw) ==
    IF old = NaN \/ raw = NaN THEN NaN
    ELSE old + ((raw - old) * 10) \div 100

\* (mutation of simulate_demo: bass takes the whole envelope, not half of it)
SimulateDemoFullEnvelope(a, w) ==
    LET bass == (3 * Scale) \div 10 + w.env
        mid == (3 * Scale) \div 10 + (w.s_mid * 2) \div 10
        treble == (15 * Scale) \div 100 + (w.s_treble * 1) \div 10
        volume == (4 * Scale) \div 10 + (w.env * 3) \div 10
        beat == w.env > (8 * Scale) \div 10
        flen == Len(a.frequency_data)
        tlen == Len(a.time_data)
    IN  [a EXCEPT
            !.bass = bass,
            !.low_mid = (25 * Scale) \div 100 + (w.s_low_mid * 15) \div 100,
            !.mid = mid,
            !.high_mid = (2 * Scale) \div 10 + (w.s_high_mid * 15) \div 100,
            !.treble = treble,
            !.volume = volume,
            !.peak = (volume * 12) \div 10,
            !.beat = beat,
            !.beat_intensity = IF beat THEN w.env ELSE 0,
            !.spectral_centroid = (5 * Scale) \div 10 + (w.s_centroid * 3) \div 10,
            !.spectral_flux = (w.env * 5) \div 10,
            !.smooth_bass = Smooth10(a.smooth_bass, bass),
            !.smooth_mid = Smooth10(a.smooth_mid, mid),
            !.smooth_treble = Smooth10(a.smooth_treble, treble),
            !.smooth_volume = Smooth10(a.smooth_volume, volume),
            !.frequency_data = [i \in 1..flen |->
                Min(255, ((flen - (i - 1)) * (flen - (i - 1)) * bass * 200
                          + w.noise * 50 * flen * flen) \div (flen * flen * Scale))],
            !.time_data = [i \in 1..tlen |->
                Max(0, Min(255, (128 * Scale * Scale + w.wave * 64 * volume)
                                \div (Scale * Scale)))]]

\* simulate_demo; w holds the values its sin() and powf() calls return for the
\* given time: env = beat_envelope, s_* = the sines of the bands and of the
\* centroid, noise = |sin| of the spectrum fill, wave = the sine of the
\* waveform fill (one value for every index)
simulate_demo(a, w) ==
    LET bass == (3 * Scale) \div 10 + (w.env * 5) \div 10
        mid == (3 * Scale) \div 10 + (w.s_mid * 2) \div 10
        treble == (15 * Scale) \div 100 + (w.s_treble * 1) \div 10
        volume == (4 * Scale) \div 10 + (w.env * 3) \div 10
        beat == w.env > (8 * Scale) \div 10
        flen == Len(a.frequency_data)
        tlen == Len(a.time_data)
    IN  [a EXCEPT
            !.bass = bass,
            !.low_mid = (25 * Scale) \div 100 + (w.s_low_mid * 15) \div 100,
            !.mid = mid,
            !.high_mid = (2 * Scale) \div 10 + (w.s_high_mid * 15) \div 100,
            !.treble = treble,
            !.volume = volume,
            !.peak = (volume * 12) \div 10,
            !.beat = beat,
            !.beat_intensity = IF beat THEN w.env ELSE 0,
            !.spectral_centroid = (5 * Scale) \div 10 + (w.s_centroid * 3) \div 10,
            !.spectral_flux = (w.env * 5) \div 10,
            !.smooth_bass = Smooth10(a.smooth_bass, bass),
            !.smooth_mid = Smooth10(a.smooth_mid, mid),
            !.smooth_treble = Smooth10(a.smooth_treble, treble),
            !.smooth_volume = Smooth10(a.smooth_volume, volume),
            !.frequency_data = [i \in 1..flen |->
                Min(255, ((flen - (i - 1)) * (flen - (i - 1)) * bass * 200
                          + w.noise * 50 * flen * flen) \div (flen * flen * Scale))],
            !.time_data = [i \in 1..tlen |->
                Max(0, Min(255, (128 * Scale * Scale + w.wave * 64 * volume)
                                \div (Scale * Scale)))]]

DemoWave(env, s) ==
    [env |-> env, s_low_mid |-> s, s_mid |-> s, s_high_mid |-> s,
     s_treble |-> s, s_centroid |-> s, noise |-> Abs(s), wave |-> s]

DemoWaves ==
    {DemoWave(env, s) : env \in {0, (9 * Scale) \div 10, Scale},
                        s \in {0 - Scale, 0, Scale}}

----------------------------------------------------------------------------
(* The extraction functions called in any order on one AudioAnalysis *)

\* the flags update_audio branches on
DemoSource ==
    [is_playing |-> FALSE, file_audio_initialized |-> FALSE,
     demo_mode |-> TRUE, audio_initialized |-> FALSE]

MicSource == [DemoSource EXCEPT !.demo_mode = FALSE, !.audio_initialized = TRUE]

FileSource == [DemoSource EXCEPT !.is_playing = TRUE, !.file_audio_initialized = TRUE]

Sources == {DemoSource, MicSource, FileSource}

NoCall(a) == [op |-> "new", pre |-> a, freq |-> <<>>, time |-> <<>>]

\* the capture callback at rest.  created (the length the shared buffer was
\* created with) and whole (the contents left by the callbacks that have run
\* to completion) are history fields.
Idle == [pc |-> "idle", data |-> <<>>, i |-> 0, created |-> 0, whole |-> <<>>]

NoFrame ==
    [dt |-> 0, extracted |-> <<>>, spawn_read |-> <<>>, spawned |-> 0,
     alive |-> <<>>, cap |-> 0, drawn |-> <<>>, whole |-> <<>>]

\* VisualizerConfig::default, the fields the model reads
DefaultConfig ==
    [particle_count |-> 50, pulse_on_beat |-> TRUE,
     base_depth |-> 16, depth_complexity_mult |-> 4 * Scale,
     up_bass_mult |-> 1200, up_mid_mult |-> 600, up_treble_mult |-> 200,
     up_max_lines |-> 80, up_samples |-> 120,
     up_freq_curve_exponent |-> 2500, up_smoothing |-> 150]

\* no draw_fractal call has been made
NoFractal == [pc |-> "idle"]

\* UnknownPleasuresVisualizer::new
UnknownPleasuresNew == [last_amplitudes |-> <<>>]

\* Option<usize>::None of current_index and of the index getters
None == 0 - 1

\* PlaylistState::default(): no track, nothing current, shuffle off.  tracks
\* holds the track names; shuffle_order holds 0-based track indices.
PlaylistDefault ==
    [tracks |-> <<>>, current_index |-> None, is_playing |-> FALSE,
     is_shuffled |-> FALSE, shuffle_order |-> <<>>]

\* history: the last playlist operation was not a remove_track call.  The
\* fields are the operation, its index argument, and from the state before
\* it: the number of tracks, current_index and the name of the current track
\* (0 when there is none).
NoPlaylistOp ==
    [op |-> "none", index |-> None, len |-> 0, current |-> None, track |-> 0]

\* no UnknownPleasuresVisualizer::draw call has been made.  All fields are
\* history: the number of calls, whether the last one panicked, the segments
\* it painted, its line and sample counts, the bin range <<start, end>> and
\* the raw amplitude of each of its lines, last_amplitudes as it was before
\* the call, the largest line count of any call, and for line 0 the run of
\* consecutive calls with one raw amplitude and one smoothing coefficient
\* (its length n and the stored value s0 the run started from).
NoDrawing ==
    [draws |-> 0, panicked |-> FALSE, segments |-> 0, lines |-> 0,
     samples |-> 0, bin_total |-> 0, bins |-> <<>>, raw |-> <<>>,
     before |-> <<>>, most_lines |-> 0, alphas |-> <<>>,
     run |-> [n |-> 0, s0 |-> 0, raw |-> 0, k |-> 0]]

InitExtract ==
    /\ app \in {"native", "web"}
    /\ audio = IF app = "native" THEN NativeNew(MaxBufLen) ELSE WebNew(MaxFftLen)
    /\ last = NoCall(audio)
    /\ config = DefaultConfig
    /\ visualizer_mode = "Fractal"
    /\ source = DemoSource
    /\ particles = <<>>
    /\ audio_data = <<>>
    /\ audio_buf = <<>>
    /\ lock = "free"
    /\ pc = 1
    /\ cb = Idle
    /\ frame = NoFrame
    /\ calls = 0
    /\ fractal = NoFractal
    /\ unknown_visualizer = UnknownPleasuresNew
    /\ drawing = NoDrawing
    /\ playlist = PlaylistDefault
    /\ playlist_op = NoPlaylistOp

ExtractUnchanged ==
    UNCHANGED <<playlist, playlist_op, fractal, unknown_visualizer, drawing, app, config, visualizer_mode, source, particles, audio_data,
                audio_buf, lock, pc, cb, frame>>

CallCpal(buffer) ==
    /\ app = "native"
    /\ calls < MaxCalls
    /\ audio' = update_from_cpal(audio, buffer)
    /\ last' = [op |-> "update_from_cpal", pre |-> audio, freq |-> buffer, time |-> buffer]
    /\ calls' = calls + 1
    /\ ExtractUnchanged

CallFft(frequency_data, time_data) ==
    /\ app = "web"
    /\ calls < MaxCalls
    /\ audio' = update_from_fft(audio, frequency_data, time_data)
    /\ last' = [op |-> "update_from_fft", pre |-> audio,
                freq |-> frequency_data, time |-> time_data]
    /\ calls' = calls + 1
    /\ ExtractUnchanged

CallDemo(w) ==
    /\ app = "web"
    /\ calls < MaxCalls
    /\ audio' = simulate_demo(audio, w)
    /\ last' = [op |-> "simulate_demo", pre |-> audio, freq |-> <<>>, time |-> <<>>]
    /\ calls' = calls + 1
    /\ ExtractUnchanged

NextExtract ==
    \/ \E buffer \in CpalBuffers : CallCpal(buffer)
    \/ \E f \in FreqArrays, t \in TimeArrays : CallFft(f, t)
    \/ \E w \in DemoWaves : CallDemo(w)

SpecExtract == InitExtract /\ [][NextExtract]_vars

----------------------------------------------------------------------------
(* Claims about the extraction functions (checked under SpecExtract) *)

EmptyCall ==
    /\ last.op \in {"update_from_cpal", "update_from_fft"}
    /\ last.freq = <<>>

NonEmptyCall(op) == last.op = op /\ last.freq # <<>>

C2_CpalBeatUsesPriorSmoothBass ==
    NonEmptyCall("update_from_cpal") =>
        LET jump == audio.bass - last.pre.smooth_bass
        IN  /\ audio.beat = (jump > Scale \div 10 /\ audio.bass > (3 * Scale) \div 10)
            /\ audio.beat_intensity = IF audio.beat THEN Min(jump, Scale) ELSE 0

\* C3: in update_from_fft with a non-empty frequency array, beat is true iff
\* (new bass - smooth_bass before this call's smoothing) > 0.1 and new bass >
\* 0.6, and beat_intensity is min(that difference, 1.0) when beat is true, 0
\* otherwise.
C3_FftBeatUsesPriorSmoothBass ==
    NonEmptyCall("update_from_fft") =>
        LET jump == audio.bass - last.pre.smooth_bass
        IN  /\ audio.beat = (jump > Scale \div 10 /\ audio.bass > (6 * Scale) \div 10)
            /\ audio.beat_intensity = IF audio.beat THEN Min(jump, Scale) ELSE 0

\* C3 witness: update_from_fft fired a beat on a state whose smooth_bass was
\* already above zero, so the smoothed value before and after the call differ.
C3_Witness ==
    /\ NonEmptyCall("update_from_fft")
    /\ audio.beat
    /\ last.pre.smooth_bass > 0
    /\ audio.beat_intensity = audio.bass - last.pre.smooth_bass

\* sum of the positive differences cur[i] - prev[i], prev read as 0 past its end
PositiveDiffs(cur, prev) ==
    SumSeq([i \in 1..Len(cur) |->
        LET d == cur[i] - (IF i <= Len(prev) THEN prev[i] ELSE 0)
        IN  IF d > 0 THEN d ELSE 0])

\* C4 as stated: on both paths the spectral_flux a call produces is the sum of
\* the positive differences between that call's frequency array and the array
\* retained from the previous call (over bins x 255 on the byte path), never a
\* difference of the current array with itself.
C4_FluxAgainstPreviousFrame ==
    /\ NonEmptyCall("update_from_cpal") =>
           audio.spectral_flux =
               PositiveDiffs(audio.frequency_data, last.pre.prev_frequency_data)
    /\ NonEmptyCall("update_from_fft") =>
           audio.spectral_flux =
               (PositiveDiffs(last.freq, last.pre.frequency_data) * Scale)
               \div (Len(last.freq) * 255)

\* the f32 value x lies in [0, 1] (NaN does not)
InUnit(x) == x # NaN /\ 0 <= x /\ x <= Scale

\* C16 as stated: after any sequence of extraction calls from
\* AudioAnalysis::new(), each of bass, low_mid, mid, high_mid, treble,
\* smooth_bass, smooth_mid, smooth_treble and smooth_volume lies in [0,1],
\* maximum-amplitude input included.
C16_BandsAndSmoothedInUnit ==
    /\ InUnit(audio.bass) /\ InUnit(audio.low_mid) /\ InUnit(audio.mid)
    /\ InUnit(audio.high_mid) /\ InUnit(audio.treble)
    /\ InUnit(audio.smooth_bass) /\ InUnit(audio.smooth_mid)
    /\ InUnit(audio.smooth_treble) /\ InUnit(audio.smooth_volume)

\* C17: spectral_flux is >= 0 after every extraction call on either path, for
\* every pair of consecutive frequency arrays, arrays of different lengths
\* included.
C17_FluxNonNegative == audio.spectral_flux # NaN /\ audio.spectral_flux >= 0

\* C17 witness: a sample call whose array differs in length from the previous
\* frame's, with a bin that fell and a bin that rose: the flux is the rise.
C17_Witness ==
    /\ last.op = "update_from_cpal"
    /\ Len(audio.frequency_data) # Len(last.pre.prev_frequency_data)
    /\ \E i \in 1..Len(audio.frequency_data) :
          /\ i <= Len(last.pre.prev_frequency_data)
          /\ audio.frequency_data[i] < last.pre.prev_frequency_data[i]
    /\ audio.spectral_flux > 0

\* the five ranges of the last update_from_cpal call, in band order
LastBands ==
    LET b == CpalBands(Len(last.freq))
    IN  <<b.bass, b.low_mid, b.mid, b.high_mid, b.treble>>

\* the ranges lie within a buffer of length len
BandsWithin(bands, len) ==
    \A k \in 1..5 : 0 <= bands[k][1] /\ bands[k][1] <= bands[k][2]
                     /\ bands[k][2] <= len

\* the ranges are segments 0, 1, 2-3, 4-5 and 6-7 up to the end of a buffer of
\* length len: contiguous in band order, from 0 to len, and every index is
\* in exactly one of them
BandsPartition(bands, len) ==
    LET band_size == len \div 8
    IN  /\ bands[1][1] = 0
        /\ \A k \in 1..4 : bands[k][2] = bands[k + 1][1]
        /\ bands[5][2] = len
        /\ <<bands[1][2], bands[2][2], bands[3][2], bands[4][2]>> =
               <<band_size, 2 * band_size, 4 * band_size, 6 * band_size>>
        /\ \A idx \in 0..(len - 1) :
              Cardinality({k \in 1..5 : bands[k][1] <= idx /\ idx < bands[k][2]}) = 1

\* C22 as stated: for every non-empty buffer length the five ranges used by
\* update_from_cpal lie within the buffer, are contiguous and pairwise
\* disjoint in band order, and treble ends at the buffer end, so every sample
\* is counted in exactly one band.
C22_BandsPartitionBuffer ==
    NonEmptyCall("update_from_cpal") =>
        /\ BandsWithin(LastBands, Len(last.freq))
        /\ BandsPartition(LastBands, Len(last.freq))

\* C22 amended: for every non-empty length the ranges lie within the buffer
\* and treble ends at the buffer end; for lengths of 8 and more they are the
\* partition stated; for lengths 1 to 7 (band_size 0) bass, low-mid and mid
\* are all the range 0..1, high-mid is empty and treble is the whole buffer,
\* so sample 0 is counted in four bands.
C22_BandsPartitionAmended ==
    NonEmptyCall("update_from_cpal") =>
        LET len == Len(last.freq)
        IN  /\ BandsWithin(LastBands, len)
            /\ LastBands[5][2] = len
            /\ len >= 8 => BandsPartition(LastBands, len)
            /\ len < 8 => LastBands = <<(<<0, 1>>), <<0, 1>>, <<0, 1>>,
                                         <<0, 0>>, <<0, len>>>>

\* C22 witness: a call with a buffer of more than 8 samples whose length is
\* not a multiple of 8, where treble takes the remainder and is non-zero.
C22_Witness ==
    /\ NonEmptyCall("update_from_cpal")
    /\ Len(last.freq) > 8
    /\ Len(last.freq) % 8 # 0
    /\ LastBands[5][2] - LastBands[5][1] > 2 * (Len(last.freq) \div 8)
    /\ audio.treble > 0

\* C23: update_from_fft stores copies of its two input arrays as
\* frequency_data and time_data for every input; called with empty frequency
\* and time slices it does not panic and leaves both stored arrays with
\* length 0.
C23_FftStoresBothArrays ==
    last.op = "update_from_fft" =>
        /\ audio.frequency_data = last.freq
        /\ audio.time_data = last.time
        /\ (last.freq = <<>> /\ last.time = <<>>) =>
               (Len(audio.frequency_data) = 0 /\ Len(audio.time_data) = 0)

\* C23 witness: empty slices arrive while both stored arrays hold data, and
\* both are empty after the call.
C23_Witness ==
    /\ last.op = "update_from_fft"
    /\ last.freq = <<>> /\ last.time = <<>>
    /\ Len(last.pre.frequency_data) > 0 /\ Len(last.pre.time_data) > 0
    /\ audio.frequency_data = <<>> /\ audio.time_data = <<>>

\* C24: after AudioAnalysis::new() and simulate_demo(t), and any number of
\* further simulate_demo calls, bass lies in [0,1], volume lies in [0,1.5],
\* and frequency_data and time_data keep a non-zero length: simulate_demo
\* never resizes them, so they keep the length new() gave them.
C24_DemoKeepsRangesAndLengths ==
    last.op = "simulate_demo" =>
        /\ InUnit(audio.bass)
        /\ audio.volume # NaN /\ 0 <= audio.volume
        /\ audio.volume <= (3 * Scale) \div 2
        /\ Len(audio.frequency_data) = Len(last.pre.frequency_data)
        /\ Len(audio.time_data) = Len(last.pre.time_data)
        /\ last.pre = WebNew(MaxFftLen) =>
               (Len(audio.frequency_data) > 0 /\ Len(audio.time_data) > 0)

\* C24 witness: the second of two simulate_demo calls after new(), at the
\* top of the beat envelope: bass is 0.8, volume 0.7, the arrays as long as
\* new() made them.
C24_Witness ==
    /\ last.op = "simulate_demo"
    /\ calls = 2
    /\ last.pre.smooth_volume > 0
    /\ last.pre.spectral_centroid # 0
    /\ audio.bass = (8 * Scale) \div 10
    /\ audio.volume = (7 * Scale) \div 10
    /\ Len(audio.frequency_data) = MaxFftLen
    /\ Len(audio.time_data) = MaxFftLen

\* C25: update_from_cpal on a 512-sample buffer alternating -1, 1, -1, 1, ...
\* sets volume (the RMS of the raw values) to 1.0.
C25_AlternatingBufferHasUnitVolume ==
    (last.op = "update_from_cpal" /\ last.freq = Alternating(512)) =>
        audio.volume = Scale

\* C25 witness: the alternating 512-sample buffer has been analysed; its
\* peak and every band are 1.0 as well.
C25_Witness ==
    /\ last.op = "update_from_cpal"
    /\ Len(last.freq) = 512
    /\ \A i \in 1..512 : last.freq[i] = IF i % 2 = 1 THEN 0 - Scale ELSE Scale
    /\ audio.volume = Scale
    /\ audio.peak = Scale
    /\ audio.bass = Scale /\ audio.treble = Scale

\* C28 as stated: in update_from_fft, for every input pair with a non-empty
\* frequency array (an empty time-domain array and frequency arrays shorter
\* than 16 bins included), no division has a zero divisor, so the band
\* averages, the centroid, the flux, volume and smooth_volume are
\* well-defined numbers after the call whenever they were before it.
C28_FftDivisorsNeverZero ==
    (NonEmptyCall("update_from_fft") /\ last.pre.smooth_volume # NaN) =>
        /\ audio.bass # NaN /\ audio.low_mid # NaN /\ audio.mid # NaN
        /\ audio.high_mid # NaN /\ audio.treble # NaN
        /\ audio.spectral_centroid # NaN /\ audio.spectral_flux # NaN
        /\ audio.volume # NaN /\ audio.smooth_volume # NaN

\* the energy-weighted mean bin index (0-based) of freq over its bin count
MeanBinOverCount(freq) ==
    (SumSeq([i \in 1..Len(freq) |-> (i - 1) * freq[i]]) * Scale)
    \div (SumSeq(freq) * Len(freq))

\* C21: in update_from_fft with a non-empty frequency array whose bins are all
\* zero, spectral_centroid keeps the value it had before the call (not reset
\* to zero, no division by zero); when the total energy is positive it is set
\* to the energy-weighted mean bin index divided by the bin count.
C21_CentroidKeptWithoutEnergy ==
    NonEmptyCall("update_from_fft") =>
        /\ audio.spectral_centroid # NaN
        /\ IF SumSeq(last.freq) = 0
           THEN audio.spectral_centroid = last.pre.spectral_centroid
           ELSE audio.spectral_centroid = MeanBinOverCount(last.freq)

\* C21 witness: an all-zero array arrives while the centroid is positive, and
\* the centroid is still that positive value after the call.
C21_Witness ==
    /\ NonEmptyCall("update_from_fft")
    /\ SumSeq(last.freq) = 0
    /\ last.pre.spectral_centroid > 0
    /\ audio.spectral_centroid = last.pre.spectral_centroid

----------------------------------------------------------------------------
(* Particles (native particle.rs; the web crate holds the same struct) *)

\* the f32 value 1.0 in units of 2^-30
F32One == 1073741824

\* the spacing of f32 values around a magnitude a (in units of 2^-30): a has
\* a 24-bit significand, so magnitudes below 2^24 units are kept exactly
RECURSIVE F32Quantum(_)
F32Quantum(a) == IF a < 16777216 THEN 1 ELSE 2 * F32Quantum(a \div 2)

\* round to nearest f32, ties to the even significand
F32Round(x) ==
    LET a  == Abs(x)
        q  == F32Quantum(a)
        m  == a \div q
        r  == a % q
        up == (2 * r > q) \/ (2 * r = q /\ m % 2 = 1)
        n  == (IF up THEN m + 1 ELSE m) * q
    IN  IF x < 0 THEN 0 - n ELSE n

\* Particle::new: life 1.0, max_life 1.0.  id = <<frame, k>> and age (the
\* exact sum of the dt values since the spawn) are history fields.
NewParticle(id) == [id |-> id, life |-> F32One, max_life |-> F32One, age |-> 0]

\* Particle::update: self.life -= dt / self.max_life.  max_life is 1.0 in
\* every particle (new sets it, nothing assigns it), and the f32 quotient
\* dt / 1.0 is dt itself, so only the subtraction rounds.
ParticleUpdate(p, dt) ==
    [p EXCEPT !.life = F32Round(@ - dt), !.age = @ + dt]

\* Particle::is_alive
is_alive(p) == p.life > 0

Spawn(ps, n, frame_no) == ps \o [k \in 1..n |-> NewParticle(<<frame_no, k>>)]

UpdateAll(ps, dt) == [i \in 1..Len(ps) |-> ParticleUpdate(ps[i], dt)]

Retain(ps) == SelectSeq(ps, is_alive)

\* (mutation of NativeSpawnCount: the max(1) dropped)
NativeSpawnCountNoFloor(particle_count) == particle_count \div 10

\* native: (particle_count / 10).max(1)
NativeSpawnCount(particle_count) == Max(particle_count \div 10, 1)

\* web: for _ in 0..5
WebSpawnCount == 5

\* (mutation of NativeCap: the cap doubled, as in the web crate)
NativeCapDoubled(particle_count) == particle_count * 2

\* native: target = particle_count
NativeCap(particle_count) == particle_count

\* web: particle_count * 2
WebCap(particle_count) == particle_count * 2

\* native: if len > target { truncate(target) } keeps the first target elements
NativeLimit(ps, target) == IF Len(ps) > target THEN SubSeq(ps, 1, target) ELSE ps

\* web: while len > cap { remove(0) } keeps the last cap elements
WebLimit(ps, cap) ==
    IF Len(ps) > cap THEN SubSeq(ps, Len(ps) - cap + 1, Len(ps)) ELSE ps

----------------------------------------------------------------------------
(* The frame loops: eframe::App::update of the native and of the web app *)

\* values the settings step may give config.particle_count (a pub u32 field)
ParticleCounts == {1, 50}

\* values of ctx.input(|i| i.stable_dt): the f32 values 0.2 and 0.4, whose
\* significand is 13421773, in units of 2^-30
Dts == {13421773 * 16, 13421773 * 32}

Modes == {"Fractal", "UnknownPleasures"}

\* what a capture callback delivers: one silent sample, or more samples at
\* full scale than the buffer holds
CaptureData == {<<0>>, Step(FrameBufLen + 1, Scale, Scale)}

\* the trigonometric values offered to simulate_demo inside a frame
FrameWaves == {DemoWave(env, 0) : env \in {0, (9 * Scale) \div 10}}

\* what the web analyser poll delivers
PollData == {<<Step(MaxFftLen, a, 0), <<128>>>> : a \in {0, 255}}

\* (mutation of NativeSteps: the particle step moved ahead of the extraction)
NativeStepsParticlesFirst == <<"lock", "clone", "particles", "extract", "panel", "draw">>

\* the statements of the native update(), in program order
NativeSteps == <<"lock", "clone", "extract", "particles", "panel", "draw">>

\* the statements of the web update(), in program order
WebSteps == <<"extract", "particles", "panel", "draw">>

Steps == IF app = "native" THEN NativeSteps ELSE WebSteps

Stmt == Steps[pc]

\* (mutation of GuardAfterClone: the MutexGuard bound to a local that lives on)
GuardKeptAfterClone == "render"

\* the temporary MutexGuard of line 305 is dropped at the end of its statement
GuardAfterClone == "free"

InitFrames ==
    /\ app \in {"native", "web"}
    /\ audio = IF app = "native" THEN NativeNew(MaxBufLen) ELSE WebNew(MaxFftLen)
    /\ last = NoCall(audio)
    /\ config = DefaultConfig
    /\ visualizer_mode = "Fractal"
    /\ source = DemoSource
    /\ particles = <<>>
    /\ audio_data \in IF app = "native"
                       THEN {Zeros(FrameBufLen), <<>>}
                       ELSE {<<Zeros(MaxFftLen), Zeros(MaxFftLen)>>}
    /\ audio_buf = <<>>
    /\ lock = "free"
    /\ pc = 1
    /\ cb = [Idle EXCEPT !.created = Len(audio_data), !.whole = audio_data]
    /\ frame = NoFrame
    /\ calls = 0
    /\ fractal = NoFractal
    /\ unknown_visualizer = UnknownPleasuresNew
    /\ drawing = NoDrawing
    /\ playlist = PlaylistDefault
    /\ playlist_op = NoPlaylistOp

\* dt is read when update() is entered
DtChoices == IF pc = 1 THEN Dts ELSE {frame.dt}

Begin(d) == IF pc = 1 THEN [NoFrame EXCEPT !.dt = d] ELSE frame

FrameNo == IF pc = 1 THEN calls + 1 ELSE calls

Advance(f) ==
    /\ pc = 1 => calls < MaxFrames
    /\ pc' = IF pc = Len(Steps) THEN 1 ELSE pc + 1
    /\ calls' = FrameNo
    /\ frame' = f

\* let audio_buf = self.audio_data.lock().unwrap().clone(): the lock is taken ...
RenderLock(d) ==
    /\ app = "native" /\ Stmt = "lock"
    /\ lock = "free"
    /\ lock' = "render"
    /\ Advance(Begin(d))
    /\ UNCHANGED <<playlist, playlist_op, fractal, unknown_visualizer, drawing, app, audio, last, config, visualizer_mode, source, particles,
                   audio_data, audio_buf, cb>>

\* ... the buffer cloned and the guard dropped
RenderClone(d) ==
    /\ app = "native" /\ Stmt = "clone"
    /\ lock = "render"
    /\ audio_buf' = audio_data
    /\ lock' = GuardAfterClone
    /\ Advance([Begin(d) EXCEPT !.whole = <<cb.whole>>])
    /\ UNCHANGED <<playlist, playlist_op, fractal, unknown_visualizer, drawing, app, audio, last, config, visualizer_mode, source, particles,
                   audio_data, cb>>

\* self.audio.update_from_cpal(&audio_buf)
RenderExtract(d) ==
    /\ app = "native" /\ Stmt = "extract"
    /\ audio' = update_from_cpal(audio, audio_buf)
    /\ last' = [op |-> "update_from_cpal", pre |-> audio,
                freq |-> audio_buf, time |-> audio_buf]
    /\ Advance([Begin(d) EXCEPT !.extracted = <<audio'>>])
    /\ UNCHANGED <<playlist, playlist_op, fractal, unknown_visualizer, drawing, app, config, visualizer_mode, source, particles,
                   audio_data, audio_buf, lock, cb>>

\* spawn particles on beat; update and cull particles
NativeParticles(d) ==
    /\ app = "native" /\ Stmt = "particles"
    /\ LET f == Begin(d)
           n == IF audio.beat THEN NativeSpawnCount(config.particle_count) ELSE 0
           updated == UpdateAll(Spawn(particles, n, FrameNo), f.dt)
           alive == Retain(updated)
           target == NativeCap(config.particle_count)
       IN  /\ particles' = NativeLimit(alive, target)
           /\ Advance([f EXCEPT !.spawn_read = <<audio.beat>>, !.spawned = n,
                                 !.alive = alive, !.cap = target])
    /\ UNCHANGED <<playlist, playlist_op, fractal, unknown_visualizer, drawing, app, audio, last, config, visualizer_mode, source,
                   audio_data, audio_buf, lock, cb>>

\* update_audio
WebUpdateAudio(d, w) ==
    /\ app = "web" /\ Stmt = "extract"
    /\ LET is_file_playing == source.is_playing /\ source.file_audio_initialized
           demo == ~is_file_playing /\ (source.demo_mode \/ ~source.audio_initialized)
       IN  /\ audio' = IF demo THEN simulate_demo(audio, w)
                       ELSE update_from_fft(audio, audio_data[1], audio_data[2])
           /\ last' = IF demo
                      THEN [op |-> "simulate_demo", pre |-> audio,
                            freq |-> <<>>, time |-> <<>>]
                      ELSE [op |-> "update_from_fft", pre |-> audio,
                            freq |-> audio_data[1], time |-> audio_data[2]]
    /\ Advance([Begin(d) EXCEPT !.extracted = <<audio'>>])
    /\ UNCHANGED <<playlist, playlist_op, fractal, unknown_visualizer, drawing, app, config, visualizer_mode, source, particles,
                   audio_data, audio_buf, lock, cb>>

\* update_animation
WebUpdateAnimation(d) ==
    /\ app = "web" /\ Stmt = "particles"
    /\ LET f == Begin(d)
           n == IF /\ audio.beat
                   /\ config.pulse_on_beat
                   /\ visualizer_mode # "UnknownPleasures"
                THEN WebSpawnCount ELSE 0
           updated == UpdateAll(Spawn(particles, n, FrameNo), f.dt)
           alive == Retain(updated)
           cap == WebCap(config.particle_count)
       IN  /\ particles' = WebLimit(alive, cap)
           /\ Advance([f EXCEPT !.spawn_read = <<audio.beat>>, !.spawned = n,
                                 !.alive = alive, !.cap = cap])
    /\ UNCHANGED <<playlist, playlist_op, fractal, unknown_visualizer, drawing, app, audio, last, config, visualizer_mode, source,
                   audio_data, audio_buf, lock, cb>>

\* the settings panel, drawn between the particle step and the renderers: the
\* user changes nothing, or one of particle_count, pulse_on_beat, the mode and
\* (web) the audio source
SettingsPanel(d, c, m, s) ==
    /\ Stmt = "panel"
    /\ \/ c = config /\ m = visualizer_mode /\ s = source
       \/ c.pulse_on_beat = config.pulse_on_beat /\ m = visualizer_mode /\ s = source
       \/ c.particle_count = config.particle_count /\ m = visualizer_mode /\ s = source
       \/ c = config /\ s = source
       \/ c = config /\ m = visualizer_mode /\ app = "web"
    /\ app = "native" => s = source /\ c.pulse_on_beat = config.pulse_on_beat
    /\ config' = c
    /\ visualizer_mode' = m
    /\ source' = s
    /\ Advance(Begin(d))
    /\ UNCHANGED <<playlist, playlist_op, fractal, unknown_visualizer, drawing, app, audio, last, particles, audio_data, audio_buf, lock, cb>>

\* draw_fractal / unknown_visualizer.draw / draw_particles read self.audio
RenderDraw(d) ==
    /\ Stmt = "draw"
    /\ Advance([Begin(d) EXCEPT !.drawn = <<audio>>])
    /\ UNCHANGED <<playlist, playlist_op, fractal, unknown_visualizer, drawing, app, audio, last, config, visualizer_mode, source, particles,
                   audio_data, audio_buf, lock, cb>>

\* what the callback's loop leaves in a buffer old when it is handed data:
\* data over the first min(len) places, the tail of old behind them
Overwritten(old, data) ==
    [k \in 1..Len(old) |-> IF k <= Len(data) THEN data[k] ELSE old[k]]

\* (mutation of GuardWhileWriting: the mutex taken anew for every sample)
GuardPerSample == "free"

\* the MutexGuard `audio` of the callback lives until the closure returns
GuardWhileWriting == "capture"

\* the cpal input callback: audio_data.lock().unwrap() ...
CallbackLock(data) ==
    /\ app = "native"
    /\ cb.pc = "idle"
    /\ lock = "free"
    /\ lock' = "capture"
    /\ cb' = [cb EXCEPT !.pc = "writing", !.data = data, !.i = 0]
    /\ UNCHANGED <<playlist, playlist_op, fractal, unknown_visualizer, drawing, app, audio, last, config, visualizer_mode, source, particles,
                   audio_data, audio_buf, pc, frame, calls>>

\* ... one iteration of for (i, sample) in data.iter().enumerate().take(audio.len())
CallbackWrite ==
    /\ app = "native"
    /\ cb.pc = "writing"
    /\ cb.i < Min(Len(cb.data), Len(audio_data))
    /\ audio_data' = [audio_data EXCEPT ![cb.i + 1] = cb.data[cb.i + 1]]
    /\ cb' = [cb EXCEPT !.i = @ + 1]
    /\ lock' = GuardWhileWriting
    /\ UNCHANGED <<playlist, playlist_op, fractal, unknown_visualizer, drawing, app, audio, last, config, visualizer_mode, source, particles,
                   audio_buf, pc, frame, calls>>

\* ... the loop is over, the callback returns and its guard is dropped
CallbackReturn ==
    /\ app = "native"
    /\ cb.pc = "writing"
    /\ cb.i >= Min(Len(cb.data), Len(audio_data))
    /\ lock' = "free"
    /\ cb' = [cb EXCEPT !.pc = "idle", !.data = <<>>, !.i = 0,
                        !.whole = Overwritten(@, cb.data)]
    /\ UNCHANGED <<playlist, playlist_op, fractal, unknown_visualizer, drawing, app, audio, last, config, visualizer_mode, source, particles,
                   audio_data, audio_buf, pc, frame, calls>>

\* the setInterval callback of the web crate stores a fresh pair of arrays; it
\* runs on the one JS thread, so only between two update() calls
WebPoll(data) ==
    /\ app = "web"
    /\ pc = 1
    /\ audio_data' = data
    /\ UNCHANGED <<playlist, playlist_op, fractal, unknown_visualizer, drawing, app, audio, last, config, visualizer_mode, source, particles,
                   audio_buf, lock, pc, cb, frame, calls>>

Configs ==
    {[config EXCEPT !.particle_count = n, !.pulse_on_beat = b] :
        n \in ParticleCounts, b \in BOOLEAN}

Next ==
    \/ \E d \in DtChoices : RenderLock(d)
    \/ \E d \in DtChoices : RenderClone(d)
    \/ \E d \in DtChoices : RenderExtract(d)
    \/ \E d \in DtChoices : NativeParticles(d)
    \/ \E d \in DtChoices, w \in FrameWaves : WebUpdateAudio(d, w)
    \/ \E d \in DtChoices : WebUpdateAnimation(d)
    \/ \E d \in DtChoices, c \in Configs, m \in Modes, s \in Sources :
            SettingsPanel(d, c, m, s)
    \/ \E d \in DtChoices : RenderDraw(d)
    \/ \E data \in CaptureData : CallbackLock(data)
    \/ CallbackWrite
    \/ CallbackReturn
    \/ \E data \in PollData : WebPoll(data)

Spec == InitFrames /\ [][Next]_vars

----------------------------------------------------------------------------
(* Claims about the frame loops (checked under Spec) *)

\* the particle step of the current frame has just run
AfterParticleStep == Stmt = "panel"

\* C5 as stated: when the live particle count exceeds the cap at the end of a
\* frame's particle step, the oldest particles are removed and the newest ones
\* up to the cap are kept, in the native and in the web frame loop.
C5_EvictionKeepsNewest ==
    (AfterParticleStep /\ Len(frame.alive) > frame.cap) =>
        particles = SubSeq(frame.alive, Len(frame.alive) - frame.cap + 1,
                           Len(frame.alive))

\* C6: at the end of every frame's particle step the live particle count is at
\* most the cap derived from config.particle_count: particle_count in the
\* native app, 2 x particle_count in the web app.
C6_ParticleCountWithinCap ==
    AfterParticleStep =>
        Len(particles) <= IF app = "native" THEN config.particle_count
                          ELSE 2 * config.particle_count

\* C6 witness: a particle step found more live particles than the cap and
\* left exactly the cap.
C6_Witness ==
    /\ AfterParticleStep
    /\ Len(frame.alive) > frame.cap
    /\ Len(particles) = frame.cap
    /\ config.particle_count = 1

\* C7: after each frame's particle step no particle with life <= 0 remains, a
\* particle's life starts at 1.0 (it is never above), and every particle is
\* gone by the end of the first frame at which the dt accumulated since its
\* spawn, the spawn frame included, has reached max_life = 1.0.
C7_NoDeadParticleRemains ==
    AfterParticleStep =>
        \A i \in 1..Len(particles) :
            /\ particles[i].life > 0
            /\ particles[i].life <= F32One
            /\ particles[i].max_life = F32One
            /\ particles[i].age < particles[i].max_life

SpawnedAsStated ==
    IF audio.beat
    THEN IF app = "native" THEN Max(1, config.particle_count \div 10) ELSE 5
    ELSE 0

\* C8 as stated: in every frame whose extraction leaves beat true, new
\* particles are created in that frame, max(1, particle_count / 10) of them in
\* the native app and exactly 5 in the web app; in a frame whose beat is false
\* none is created.
C8_BeatAlwaysSpawns == AfterParticleStep => frame.spawned = SpawnedAsStated

\* C8 amended: as stated for the native app; in the web app a beat frame
\* creates exactly 5 particles when config.pulse_on_beat is set and the mode
\* is not UnknownPleasures, and none otherwise; a frame whose beat is false
\* creates none.
C8_BeatSpawnsAmended ==
    AfterParticleStep =>
        frame.spawned =
            IF /\ app = "web"
               /\ (~config.pulse_on_beat \/ visualizer_mode = "UnknownPleasures")
            THEN 0
            ELSE SpawnedAsStated

\* C8 witness: a web frame with a beat, pulse_on_beat set and the fractal mode
\* created 5 particles although particle_count is 1.
C8_Witness ==
    /\ AfterParticleStep
    /\ app = "web"
    /\ audio.beat
    /\ frame.spawned = 5
    /\ config.particle_count = 1

\* C9: within one frame the particle spawn and the renderers run after the
\* extraction: the beat flag the particle step reads and the features the
\* renderers read are those the same frame's extraction left in self.audio.
C9_FrameReadsOwnExtraction ==
    /\ frame.spawn_read # <<>> =>
          /\ frame.extracted # <<>>
          /\ frame.spawn_read[1] = frame.extracted[1].beat
    /\ frame.drawn # <<>> =>
          /\ frame.extracted # <<>>
          /\ frame.spawn_read # <<>>
          /\ frame.drawn[1] = frame.extracted[1]

\* C9 witness: a frame whose extraction turned beat from false to true has
\* spawned particles and drawn.
C9_Witness ==
    /\ frame.drawn # <<>>
    /\ frame.extracted # <<>>
    /\ frame.extracted[1].beat
    /\ ~last.pre.beat
    /\ frame.spawned > 0
    /\ calls >= 2

\* C10: the render loop holds the audio-buffer lock only for the clone: when
\* it holds the lock its next statement is the clone (which releases it), so
\* it never holds the lock while analysing, stepping particles or drawing, and
\* whoever holds the lock can always take its next step (no deadlock).
C10_LockHeldOnlyForClone ==
    /\ lock = "render" => app = "native" /\ Stmt = "clone"
    /\ Stmt \in {"extract", "particles", "panel", "draw"} => lock # "render"
    /\ lock = "capture" => cb.pc = "writing"
    /\ lock = "free" => cb.pc = "idle"

\* C10 witness: the capture callback holds the lock and writes while the
\* render loop is past the clone and about to analyse the copy it took.
C10_Witness ==
    /\ app = "native"
    /\ Stmt = "extract"
    /\ lock = "capture"
    /\ cb.i > 0
    /\ calls >= 2

\* C11: under any interleaving of capture callbacks and render-loop reads the
\* shared sample buffer keeps the length it was created with; between two
\* callbacks it holds what the completed callbacks left (a callback with more
\* samples than the capacity writes only the first capacity samples, a shorter
\* one leaves the tail unchanged); and every copy the render loop analyses
\* equals the contents left by a whole number of completed callbacks, never a
\* buffer seen in the middle of a callback's write.
C11_CopiesAreWholeCallbacks ==
    app = "native" =>
        /\ Len(audio_data) = cb.created
        /\ Len(cb.whole) = cb.created
        /\ cb.pc = "idle" => audio_data = cb.whole
        /\ Stmt \in {"extract", "particles", "panel", "draw"} =>
               audio_buf = frame.whole[1]
        /\ last.op = "update_from_cpal" => Len(last.freq) = cb.created

\* C11 witness: a callback that delivered more samples than the buffer holds
\* and then a one-sample callback have completed (the first sample is the
\* short one's, the tail the long one's), the render loop analysed a copy
\* taken after them, and a further callback is in the middle of its write
\* while the render loop works on that copy.
C11_Witness ==
    /\ app = "native"
    /\ cb.created = FrameBufLen
    /\ Stmt = "particles"
    /\ last.freq = Step(FrameBufLen, 0, Scale)
    /\ cb.pc = "writing" /\ cb.i = 1 /\ Len(cb.data) > Len(audio_data)
    /\ audio_data # cb.whole
    /\ audio_data # audio_buf

----------------------------------------------------------------------------
(* The fractal renderer: draw_fractal and the recursion of draw_branch     *)
(* (native ui.rs).  The recursion is run call by call on an explicit call  *)
(* stack; lengths are in units of 1/Scale pixel.                           *)

\* deepest base_depth of the trees whose clipping is enumerated
MaxSmallDepth == 2

\* let depth = (base_depth as f32 + spectral_centroid * depth_complexity_mult)
\* as u32: the cast drops the fraction and takes a negative sum to 0
FractalDepth(base_depth, spectral_centroid, depth_complexity_mult) ==
    LET sum == base_depth * Scale * Scale
               + spectral_centroid * depth_complexity_mult
    IN  IF sum < 0 THEN 0 ELSE sum \div (Scale * Scale)

\* (mutation of BranchStops: the depth test dropped)
BranchStopsOnLengthOnly(depth, length) == length < 2 * Scale

\* if depth == 0 || length < 2.0 { return; }
BranchStops(depth, length) == depth = 0 \/ length < 2 * Scale

\* let new_length = length * (0.65 + self.audio.smooth_treble * 0.1)
NewLength(length, smooth_treble) ==
    (length * (650 + smooth_treble \div 10)) \div Scale

\* a draw_branch activation: its depth and length arguments, whether its
\* start point and (once computed) its end point lie inside clip_rect, and
\* how far its body has got
BranchCall(depth, length, start_in) ==
    [depth |-> depth, length |-> length, start_in |-> start_in,
     end_in |-> FALSE, at |-> "entry"]

\* the inputs of draw_fractal: the config fields and audio fields line 37 and
\* line 100 read.  spectral_centroid is a pub f32 field of AudioAnalysis: 0.0
\* is what the native extractor leaves it at, 0.2 and 0.5 are values the web
\* extractor computes for the same field (update_from_fft, simulate_demo).
Centroids == {0, Scale \div 5, Scale \div 2}

FractalSetups ==
    [base_depth : 0..MaxSmallDepth, depth_complexity_mult : {0, 4 * Scale},
     spectral_centroid : Centroids, smooth_treble : {0, Scale}]
    \cup
    [base_depth : {DefaultConfig.base_depth},
     depth_complexity_mult : {DefaultConfig.depth_complexity_mult},
     spectral_centroid : {Scale \div 5}, smooth_treble : {0, Scale}]

\* base_length = max_size * zoom: a root of 100 pixels, one that falls under
\* the 2.0 threshold after one step, and one under it from the start
RootLengths == {100 * Scale, 3 * Scale, Scale}

\* how the tree lies in clip_rect: every segment inside it, or any way
Clips == {"inside", "any"}

InitFractal ==
    /\ app = "native"
    /\ \E s \in FractalSetups :
          /\ audio = [NativeNew(MaxBufLen) EXCEPT
                          !.spectral_centroid = s.spectral_centroid,
                          !.smooth_treble = s.smooth_treble]
          /\ config = [DefaultConfig EXCEPT
                          !.base_depth = s.base_depth,
                          !.depth_complexity_mult = s.depth_complexity_mult]
    /\ last = NoCall(audio)
    /\ visualizer_mode = "Fractal"
    /\ source = DemoSource
    /\ particles = <<>>
    /\ audio_data = <<>>
    /\ audio_buf = <<>>
    /\ lock = "free"
    /\ pc = 1
    /\ cb = Idle
    /\ frame = NoFrame
    /\ calls = 0
    /\ fractal = NoFractal
    /\ unknown_visualizer = UnknownPleasuresNew
    /\ drawing = NoDrawing
    /\ playlist = PlaylistDefault
    /\ playlist_op = NoPlaylistOp

FractalUnchanged ==
    UNCHANGED <<playlist, playlist_op, app, audio, last, config, visualizer_mode, source, particles,
                audio_data, audio_buf, lock, pc, cb, frame, calls,
                unknown_visualizer, drawing>>

Top == fractal.stack[Len(fractal.stack)]

Pop(returned) ==
    fractal' = [fractal EXCEPT
                   !.stack = SubSeq(@, 1, Len(@) - 1),
                   !.returned = <<returned>>]

\* draw_fractal up to its call of draw_branch from rect.center().  For a tree
\* deeper than the enumerated ones only the root of 100 pixels with every
\* segment inside clip_rect is run (a call that is clipped away makes no
\* further calls).
DrawFractal(base_length, clip) ==
    /\ fractal.pc = "idle"
    /\ LET depth == FractalDepth(config.base_depth, audio.spectral_centroid,
                                 config.depth_complexity_mult)
       IN  /\ depth > MaxSmallDepth + 2 =>
                  base_length = 100 * Scale /\ clip = "inside"
           /\ fractal' = [pc |-> "branch", depth |-> depth,
                          base_length |-> base_length, clip |-> clip,
                          stack |-> <<BranchCall(depth, base_length, TRUE)>>,
                          calls |-> 1, segments |-> 0, returned |-> <<>>]
    /\ FractalUnchanged

\* draw_branch, line 77: return
BranchReturn ==
    /\ fractal.pc = "branch" /\ fractal.stack # <<>>
    /\ Top.at = "entry"
    /\ BranchStops(Top.depth, Top.length)
    /\ Pop([depth |-> Top.depth, length |-> Top.length,
            painted |-> FALSE, clipped |-> FALSE])
    /\ FractalUnchanged

\* draw_branch, lines 84-89: neither end lies in clip_rect and the rectangle
\* spanned by the two ends does not meet it: return
BranchClipped ==
    /\ fractal.pc = "branch" /\ fractal.stack # <<>>
    /\ Top.at = "entry"
    /\ ~BranchStops(Top.depth, Top.length)
    /\ fractal.clip = "any" /\ ~Top.start_in
    /\ Pop([depth |-> Top.depth, length |-> Top.length,
            painted |-> FALSE, clipped |-> TRUE])
    /\ FractalUnchanged

\* draw_branch, lines 90-102: the segment is painted and the first recursive
\* call made; end_in tells whether the segment's end lies in clip_rect
BranchSegment(end_in) ==
    /\ fractal.pc = "branch" /\ fractal.stack # <<>>
    /\ Top.at = "entry"
    /\ ~BranchStops(Top.depth, Top.length)
    /\ fractal.clip = "inside" => end_in
    /\ LET n == Len(fractal.stack)
           child == BranchCall(Top.depth - 1,
                               NewLength(Top.length, audio.smooth_treble),
                               end_in)
       IN  fractal' = [fractal EXCEPT
                          !.stack = Append([@ EXCEPT ![n].at = "first",
                                                     ![n].end_in = end_in],
                                           child),
                          !.calls = @ + 1,
                          !.segments = @ + 1]
    /\ FractalUnchanged

\* draw_branch, lines 103-104: the second recursive call, from the same end
\* point with the same depth and length
BranchSecond ==
    /\ fractal.pc = "branch" /\ fractal.stack # <<>>
    /\ Top.at = "first"
    /\ LET n == Len(fractal.stack)
           child == BranchCall(Top.depth - 1,
                               NewLength(Top.length, audio.smooth_treble),
                               Top.end_in)
       IN  fractal' = [fractal EXCEPT
                          !.stack = Append([@ EXCEPT ![n].at = "second"], child),
                          !.calls = @ + 1]
    /\ FractalUnchanged

\* draw_branch, line 105: both recursive calls have returned
BranchDone ==
    /\ fractal.pc = "branch" /\ fractal.stack # <<>>
    /\ Top.at = "second"
    /\ Pop([depth |-> Top.depth, length |-> Top.length,
            painted |-> TRUE, clipped |-> FALSE])
    /\ FractalUnchanged

\* draw_fractal returns
FractalDone ==
    /\ fractal.pc = "branch" /\ fractal.stack = <<>>
    /\ fractal' = [fractal EXCEPT !.pc = "done"]
    /\ FractalUnchanged

NextFractal ==
    \/ \E l \in RootLengths, c \in Clips : DrawFractal(l, c)
    \/ BranchReturn
    \/ BranchClipped
    \/ \E e \in BOOLEAN : BranchSegment(e)
    \/ BranchSecond
    \/ BranchDone
    \/ FractalDone

SpecFractal == InitFractal /\ [][NextFractal]_vars

----------------------------------------------------------------------------
(* Claims about the fractal renderer (checked under SpecFractal) *)

\* every activation on the call stack has depth >= 0 and was called with its
\* caller's depth - 1 by a caller whose depth was > 0, and the number of calls
\* is bounded by the initial depth alone: at most 2^(depth + 1) - 1, which for
\* the initial depth 16 and a root of 100 pixels is below 2^17
BranchDepthBounds ==
    /\ \A i \in 1..Len(fractal.stack) : fractal.stack[i].depth >= 0
    /\ \A i \in 2..Len(fractal.stack) :
          /\ fractal.stack[i - 1].depth > 0
          /\ fractal.stack[i].depth = fractal.stack[i - 1].depth - 1
    /\ fractal.calls <= 2 ^ (fractal.depth + 1) - 1
    /\ (fractal.depth = 16 /\ fractal.base_length = 100 * Scale) =>
           fractal.calls <= 2 ^ 17

\* C12 as stated: draw_branch returns without emitting a segment or recursing
\* iff depth == 0 or length < 2.0; every recursive call passes depth - 1 from
\* a caller whose depth was > 0, so depth never goes below 0 and the number of
\* calls is bounded by the depth alone; with initial depth 16, root length 100
\* and smooth_treble in [0,1] there are at most 2^17 calls.
C12_BranchReturnsOnlyOnDepthOrLength ==
    fractal.pc # "idle" =>
        /\ BranchDepthBounds
        /\ \A i \in 1..Len(fractal.returned) :
              ~fractal.returned[i].painted <=>
                  (fractal.returned[i].depth = 0
                   \/ fractal.returned[i].length < 2 * Scale)

\* C12 amended: draw_branch returns without emitting a segment or recursing
\* iff depth == 0, or length < 2.0, or neither end of the segment lies in
\* clip_rect and the rectangle spanned by the two ends does not meet it; the
\* statements about depth and the number of calls are as stated.
C12_BranchReturnsAmended ==
    fractal.pc # "idle" =>
        /\ BranchDepthBounds
        /\ \A i \in 1..Len(fractal.returned) :
              ~fractal.returned[i].painted <=>
                  (fractal.returned[i].depth = 0
                   \/ fractal.returned[i].length < 2 * Scale
                   \/ fractal.returned[i].clipped)

\* C12 witness: after several calls and painted segments a call with depth > 0
\* and length >= 2.0 has just returned without painting, clipped away.
C12_Witness ==
    /\ fractal.pc = "branch"
    /\ fractal.returned # <<>>
    /\ fractal.returned[1].clipped
    /\ fractal.returned[1].depth > 0
    /\ fractal.returned[1].length >= 2 * Scale
    /\ fractal.calls >= 5
    /\ fractal.segments >= 3

RoundedDepth ==
    (config.base_depth * Scale * Scale
     + audio.spectral_centroid * config.depth_complexity_mult
     + (Scale * Scale) \div 2) \div (Scale * Scale)

----------------------------------------------------------------------------
(* The ridgeline renderer: UnknownPleasuresVisualizer::draw                *)
(* (music-visualizer unknown_pleasures.rs)                                 *)

MaxDraws == 3
MaxLines == 3

\* floor(f.powf(exp) * freq_len) for f = i / bands and exp the exponent in
\* units of 1/Scale, after exp = up_freq_curve_exponent.max(0.001).  The
\* exponents offered are 0.001 (every setting at or below it), 1.0 and 2.5;
\* for 0.001 the power of any 0 < f < 1 lies within 1 / freq_len below 1 for
\* the line and bin counts used here.  The power is taken exactly, which for
\* these counts is also the index the f32 computation gives.
CurveIndex(i, bands, exp, freq_len) ==
    CASE exp = Scale -> (i * freq_len) \div bands
      [] exp = 2500 ->
            Sqrt((freq_len * freq_len * i * i * i * i * i)
                 \div (bands * bands * bands * bands * bands))
      [] exp = 1 ->
            IF i = 0 THEN 0 ELSE IF i >= bands THEN freq_len ELSE freq_len - 1

\* (mutation of BinRange: the `if end <= start` repair dropped)
BinRangeUnrepaired(i, bands, exp, freq_len) ==
    <<Min(CurveIndex(i, bands, exp, freq_len), freq_len - 1),
      Min(CurveIndex(i + 1, bands, exp, freq_len), freq_len)>>

\* lines 44-48: <<start, end>> of line i (0-based, end exclusive)
BinRange(i, bands, exp, freq_len) ==
    LET start == Min(CurveIndex(i, bands, exp, freq_len), freq_len - 1)
        end   == Min(CurveIndex(i + 1, bands, exp, freq_len), freq_len)
    IN  <<start, IF end <= start THEN Min(start + 1, freq_len) ELSE end>>

\* lines 51-55: sum / ((end - start) * 255); over no bins it is 0.0 / 0.0
BaseAmp(frequency_data, r) ==
    IF r[2] <= r[1] THEN NaN
    ELSE (SumSeq(Slice(frequency_data, r[1], r[2])) * Scale)
         \div ((r[2] - r[1]) * 255)

\* lines 57-60
RawAmp(base_amp, a, cfg) ==
    IF base_amp = NaN THEN NaN
    ELSE (base_amp * (Scale + (cfg.up_bass_mult * a.smooth_bass) \div Scale
                            + (cfg.up_mid_mult * a.smooth_mid) \div Scale
                            + (cfg.up_treble_mult * a.smooth_treble) \div Scale))
         \div Scale

\* cfg.up_smoothing.clamp(0.0, 1.0)
Smoothing(cfg) == Max(0, Min(Scale, cfg.up_smoothing))

\* (mutation of SmoothedAmp: the difference taken the other way round)
SmoothedAmpReversed(old, raw_amp, smoothing) ==
    IF old = NaN \/ raw_amp = NaN THEN NaN
    ELSE old + ((old - raw_amp) * smoothing) \div Scale

\* let amp = last + (raw_amp - last) * smoothing
SmoothedAmp(old, raw_amp, smoothing) ==
    IF old = NaN \/ raw_amp = NaN THEN NaN
    ELSE old + ((raw_amp - old) * smoothing) \div Scale

\* (mutation of Resized: the buffer cut to the line count)
ResizedToLineCount(last_amplitudes, bands) ==
    [i \in 1..bands |->
        IF i <= Len(last_amplitudes) THEN last_amplitudes[i] ELSE 0]

\* lines 26-28: if len < bands { resize(bands, 0.0) }
Resized(last_amplitudes, bands) ==
    IF Len(last_amplitudes) < bands
    THEN [i \in 1..bands |->
              IF i <= Len(last_amplitudes) THEN last_amplitudes[i] ELSE 0]
    ELSE last_amplitudes

\* i as f32 / n as f32 for 0 <= i <= n, in units of 2^-30: the quotient
\* k + r / n rounded to the nearest f32, ties to the even significand
F32Div(i, n) ==
    LET k     == i * (F32One \div n) + (i * (F32One % n)) \div n
        r     == (i * (F32One % n)) % n
        q     == F32Quantum(k)
        m     == k % q
        down  == k - m
        twice == 2 * m * n + 2 * r
    IN  IF twice > q * n THEN down + q
        ELSE IF twice < q * n THEN down
        ELSE IF (down \div q) % 2 = 0 THEN down ELSE down + q

\* (mutation of Alpha: the .max(40.0) floor dropped)
AlphaWithoutFloor(i, bands) ==
    LET z == F32Div(i, bands)
        a == F32Round(F32One - z)
        q == F32Quantum(a)
        p == F32Round(25 * (a \div q))
    IN  p \div (134217728 \div q)

\* lines 38 and 71: z = i as f32 / bands as f32 and
\* alpha = (200.0 * (1.0 - z)).max(40.0) as u8, every operation rounded to
\* f32.  1.0 - z is a whole number a / q of quanta q; 200 * (1 - z) is
\* 25 * (a / q) rounded, in units of 8 q 2^-30, and the cast truncates it.
Alpha(i, bands) ==
    LET z == F32Div(i, bands)
        a == F32Round(F32One - z)
        q == F32Quantum(a)
        p == F32Round(25 * (a \div q))
    IN  Max(p \div (134217728 \div q), 40)

\* lines 89-116: a line of `samples` points is painted as samples - 1
\* segments; for samples = 0 the loop body, and with it samples - 1, is never
\* evaluated
LineSegments(samples) == IF samples = 0 THEN 0 ELSE samples - 1

\* the AudioAnalysis states offered to draw: what update_from_fft leaves
\* after empty input, after one bin, after two, and after a full loud
\* spectrum
AfterEmptyInput == update_from_fft(WebNew(MaxFftLen), <<>>, <<>>)

AfterOneBin == update_from_fft(WebNew(MaxFftLen), <<160>>, <<128>>)

AfterTwoBins == update_from_fft(WebNew(MaxFftLen), <<255, 160>>, <<128>>)

AfterLoudSpectrum ==
    update_from_fft(WebNew(MaxFftLen), Step(MaxFftLen, 255, 160), <<128>>)

UpConfig(lines, samples, exp, smoothing) ==
    [DefaultConfig EXCEPT !.up_max_lines = lines, !.up_samples = samples,
                          !.up_freq_curve_exponent = exp,
                          !.up_smoothing = smoothing]

\* the calls of draw offered: an audio state with the settings of the frame.
\* Line counts 0, 1, 2, MaxLines and 5 (the least count at which f32
\* rounding shows in alpha), more lines than bins, sample counts 0
\* and 1, the exponent at its default, at 1.0 and below the 0.001 clamp,
\* smoothing inside [0,1] and clamped from either side.
UpCalls ==
    {<<AfterLoudSpectrum, UpConfig(MaxLines, 3, 2500, 150)>>,
     <<AfterLoudSpectrum, UpConfig(1, 3, 2500, 150)>>,
     <<AfterOneBin,       UpConfig(MaxLines, 3, Scale, 500)>>,
     <<AfterLoudSpectrum, UpConfig(0, 3, 2500, 150)>>,
     <<AfterLoudSpectrum, UpConfig(2, 0, 2500, 150)>>,
     <<AfterEmptyInput,   UpConfig(2, 0, 2500, 150)>>,
     <<AfterEmptyInput,   UpConfig(0, 3, 2500, 150)>>,
     <<AfterOneBin,       UpConfig(2, 1, 0 - Scale, 2 * Scale)>>,
     <<AfterLoudSpectrum, UpConfig(1, 3, 2500, 0 - 500)>>,
     <<AfterOneBin,       UpConfig(MaxLines, 3, 2500, 150)>>,
     <<AfterTwoBins,      UpConfig(MaxLines, 3, 2500, 150)>>,
     <<AfterLoudSpectrum, UpConfig(MaxLines, 3, 0 - Scale, 150)>>,
     <<AfterLoudSpectrum, UpConfig(2, 3, Scale, 500)>>,
     <<AfterLoudSpectrum, UpConfig(5, 3, 2500, 150)>>,
     <<AfterEmptyInput,   UpConfig(1, 3, 2500, 150)>>}

InitPleasures ==
    /\ app = "web"
    /\ audio = WebNew(MaxFftLen)
    /\ last = NoCall(audio)
    /\ config = DefaultConfig
    /\ visualizer_mode = "UnknownPleasures"
    /\ source = DemoSource
    /\ particles = <<>>
    /\ audio_data = <<>>
    /\ audio_buf = <<>>
    /\ lock = "free"
    /\ pc = 1
    /\ cb = Idle
    /\ frame = NoFrame
    /\ calls = 0
    /\ fractal = NoFractal
    /\ unknown_visualizer = UnknownPleasuresNew
    /\ drawing = NoDrawing
    /\ playlist = PlaylistDefault
    /\ playlist_op = NoPlaylistOp

\* UnknownPleasuresVisualizer::draw, called with the audio state a and the
\* settings cfg.  An index outside frequency_data panics (line 53); the panic
\* ends the program.
UpDraw(a, cfg) ==
    /\ drawing.draws < MaxDraws
    /\ ~drawing.panicked
    /\ LET bands    == cfg.up_max_lines
           freq_len == Max(Len(a.frequency_data), 1)
           samples  == cfg.up_samples
           exp      == Max(cfg.up_freq_curve_exponent, 1)
           buffer   == Resized(unknown_visualizer.last_amplitudes, bands)
           bins     == [i \in 1..bands |-> BinRange(i - 1, bands, exp, freq_len)]
           panics   == \E i \in 1..bands : bins[i][2] > Len(a.frequency_data)
           raw      == [i \in 1..bands |->
                           RawAmp(BaseAmp(a.frequency_data, bins[i]), a, cfg)]
           k        == Smoothing(cfg)
           run      == drawing.run
       IN  /\ unknown_visualizer' =
                  [last_amplitudes |->
                      IF panics THEN buffer
                      ELSE [i \in 1..Len(buffer) |->
                               IF i <= bands
                               THEN SmoothedAmp(buffer[i], raw[i], k)
                               ELSE buffer[i]]]
           /\ drawing' =
                  [draws |-> drawing.draws + 1,
                   panicked |-> panics,
                   segments |-> IF panics THEN 0
                                ELSE bands * LineSegments(samples),
                   lines |-> bands,
                   samples |-> samples,
                   bin_total |-> freq_len,
                   bins |-> bins,
                   raw |-> IF panics THEN <<>> ELSE raw,
                   before |-> unknown_visualizer.last_amplitudes,
                   most_lines |-> Max(drawing.most_lines, bands),
                   alphas |-> IF panics THEN <<>>
                              ELSE [i \in 1..bands |-> Alpha(i - 1, bands)],
                   run |-> IF panics \/ bands = 0
                           THEN [n |-> 0, s0 |-> 0, raw |-> 0, k |-> 0]
                           ELSE IF run.n > 0 /\ run.raw = raw[1] /\ run.k = k
                           THEN [run EXCEPT !.n = @ + 1]
                           ELSE [n |-> 1, s0 |-> buffer[1],
                                 raw |-> raw[1], k |-> k]]
    /\ audio' = a
    /\ config' = cfg
    /\ UNCHANGED <<playlist, playlist_op, fractal, app, last, visualizer_mode, source, particles,
                   audio_data, audio_buf, lock, pc, cb, frame, calls>>

NextPleasures == \E call \in UpCalls : UpDraw(call[1], call[2])

SpecPleasures == InitPleasures /\ [][NextPleasures]_vars

----------------------------------------------------------------------------
(* Claims about the ridgeline renderer (checked under SpecPleasures) *)

\* C14 as stated: when up_max_lines is 0 or up_samples is 0,
\* UnknownPleasuresVisualizer::draw emits no line segment and does not panic.
C14_ZeroCountsDrawNothing ==
    (drawing.draws > 0 /\ (config.up_max_lines = 0 \/ config.up_samples = 0)) =>
        drawing.segments = 0 /\ ~drawing.panicked

\* the value line i (1-based) had stored before the last draw call: what the
\* buffer held, or the 0 an entry added by growth starts from
StoredBefore(i) ==
    IF i <= Len(drawing.before) THEN drawing.before[i] ELSE 0

\* C18: across any sequence of draw calls with varying up_max_lines the length
\* of the smoothing buffer never decreases and equals the largest line count
\* seen so far; entries added by growth start at 0; the stored values of
\* existing line indices are not reset when the line count grows or shrinks
\* (a line the call draws is smoothed on from its stored value, a line it
\* does not draw keeps its value).
C18_BufferGrowsNeverShrinks ==
    drawing.draws > 0 =>
        LET buffer == unknown_visualizer.last_amplitudes
        IN  /\ Len(buffer) = drawing.most_lines
            /\ Len(buffer) >= Len(drawing.before)
            /\ \A i \in 1..Len(buffer) :
                  IF i <= drawing.lines /\ ~drawing.panicked
                  THEN buffer[i] = SmoothedAmp(StoredBefore(i), drawing.raw[i],
                                               Smoothing(config))
                  ELSE buffer[i] = StoredBefore(i)

\* C18 witness: a call with fewer lines than the buffer holds has left the
\* buffer at its length, with a non-zero value stored for a line it did not
\* draw and a line it drew smoothed on from a non-zero stored value.
C18_Witness ==
    /\ drawing.draws >= 2
    /\ ~drawing.panicked
    /\ drawing.lines >= 1
    /\ drawing.lines < Len(drawing.before)
    /\ Len(unknown_visualizer.last_amplitudes) = Len(drawing.before)
    /\ unknown_visualizer.last_amplitudes[Len(drawing.before)] > 0
    /\ drawing.before[1] > 0
    /\ unknown_visualizer.last_amplitudes[1] > drawing.before[1]

\* C19: for every line index i in [0, line_count) with line_count >= 1 and a
\* frequency array of length bin_total >= 1, the bin range satisfies
\* 0 <= bin_start < bin_end <= bin_total: at least one bin is averaged, the
\* divisor bin_end - bin_start is never zero and no index outside the array
\* is read.
C19_BinRangeWithinArray ==
    (drawing.draws > 0 /\ drawing.lines >= 1 /\ Len(audio.frequency_data) >= 1) =>
        /\ ~drawing.panicked
        /\ \A i \in 1..drawing.lines :
              /\ 0 <= drawing.bins[i][1]
              /\ drawing.bins[i][1] < drawing.bins[i][2]
              /\ drawing.bins[i][2] <= Len(audio.frequency_data)
              /\ drawing.raw[i] # NaN

\* C19 witness: more lines than bins, so that every line falls back on the
\* one-bin range, and (other call) a line whose range spans several bins.
C19_Witness ==
    /\ drawing.draws > 0
    /\ drawing.lines = MaxLines
    /\ Len(audio.frequency_data) = 1
    /\ \A i \in 1..drawing.lines : drawing.bins[i] = <<0, 1>>
    /\ drawing.raw[1] > 0

RECURSIVE Gcd(_, _)
Gcd(x, y) == IF y = 0 THEN x ELSE Gcd(y, x % y)

\* C20: given a constant raw amplitude for a line sustained over N consecutive
\* draw calls with smoothing coefficient k, the stored smoothed value moves
\* monotonically toward the raw value without overshooting, and
\* |smoothed_N - raw| is at most |smoothed_0 - raw| x (1 - k)^N up to a
\* tolerance of one unit (1/Scale) per call.  (1 - k) is written p / q in
\* lowest terms.
C20_SmoothingConverges ==
    drawing.run.n >= 1 =>
        LET raw  == drawing.run.raw
            k    == drawing.run.k
            n    == drawing.run.n
            s0   == drawing.run.s0
            prev == StoredBefore(1)
            now  == unknown_visualizer.last_amplitudes[1]
            g    == Gcd(Scale, Scale - k)
            p    == (Scale - k) \div g
            q    == Scale \div g
        IN  /\ prev <= raw => (prev <= now /\ now <= raw)
            /\ prev >= raw => (raw <= now /\ now <= prev)
            /\ Abs(now - raw) <= Abs(s0 - raw)
            /\ Abs(now - raw) * q ^ n <= Abs(s0 - raw) * p ^ n + n * q ^ n

\* C20 witness: three consecutive calls with one raw amplitude and k = 0.15
\* have moved the stored value of line 0 up from 0 to strictly between the
\* start and the raw value.
C20_Witness ==
    /\ drawing.run.n >= 3
    /\ drawing.run.k = 150
    /\ drawing.run.s0 = 0
    /\ drawing.run.raw > 0
    /\ StoredBefore(1) < unknown_visualizer.last_amplitudes[1]
    /\ unknown_visualizer.last_amplitudes[1] < drawing.run.raw

\* n times max(200 x (1 - i / n), 40), the exact value of line i of n
ExactAlphaTimes(i, n) == Max(200 * (n - i), 40 * n)

\* the alphas of the last call do not rise with the line index and lie in
\* [40, 200]
AlphaFadesAboveFloor ==
    /\ \A i \in 1..drawing.lines :
          40 <= drawing.alphas[i] /\ drawing.alphas[i] <= 200
    /\ \A i \in 1..(drawing.lines - 1) :
          drawing.alphas[i + 1] <= drawing.alphas[i]

\* C26 as stated: for every line index and line count >= 1 the ridgeline's
\* alpha equals max(200 x (1 - i/line_count), 40), so it is non-increasing in
\* the line index and always within [40, 200].
C26_AlphaEqualsFadeFormula ==
    (drawing.draws > 0 /\ drawing.lines >= 1 /\ ~drawing.panicked) =>
        /\ \A i \in 1..drawing.lines :
              drawing.alphas[i] * drawing.lines =
                  ExactAlphaTimes(i - 1, drawing.lines)
        /\ AlphaFadesAboveFloor

\* C26 amended: alpha is the f32 value (200 x (1 - i/line_count)).max(40)
\* truncated to a whole number: it is at most max(200 x (1 - i/line_count),
\* 40) and at most 1 below it (within an f32 rounding tolerance, here
\* 1/Scale), non-increasing in the line index and always within [40, 200].
C26_AlphaTruncatedFadeFormula ==
    (drawing.draws > 0 /\ drawing.lines >= 1 /\ ~drawing.panicked) =>
        /\ \A i \in 1..drawing.lines :
              LET n     == drawing.lines
                  exact == ExactAlphaTimes(i - 1, n) * Scale
                  alpha == drawing.alphas[i] * n * Scale
              IN  /\ alpha <= exact + n
                  /\ alpha >= exact - n * Scale - n
        /\ AlphaFadesAboveFloor

\* C26 witness: five lines drawn; the first has alpha 200, the fourth 79
\* where the exact value is 80, the last sits on the floor of 40.
C26_Witness ==
    /\ drawing.draws > 0
    /\ ~drawing.panicked
    /\ drawing.lines = 5
    /\ drawing.alphas[1] = 200
    /\ drawing.alphas[4] = 79
    /\ drawing.alphas[5] = 40

\* C27 as stated: draw with a line count >= 1 never reads an index outside
\* audio.frequency_data and does not panic, for any AudioAnalysis state
\* reachable through update_from_fft / simulate_demo, the state with an empty
\* frequency_data left by update_from_fft on empty input included.
C27_DrawNeverReadsOutside ==
    (drawing.draws > 0 /\ drawing.lines >= 1) =>
        /\ ~drawing.panicked
        /\ \A i \in 1..drawing.lines :
              drawing.bins[i][2] <= Len(audio.frequency_data)

-----------------------------------------------------------------------------
(* Playlist: PlaylistState and the playlist operations of the two apps *)

\* largest number of tracks the playlist holds in the model
MaxTracks == 3

\* Vec::swap of two positions; the arguments are 0-based as in the source
Swap(order, i, j) ==
    [order EXCEPT ![i + 1] = order[j + 1], ![j + 1] = order[i + 1]]

\* the random draws of one shuffle: for each i in 1..len-1 an index
\* j = (random * (i + 1)) as usize, which lies in 0..i for a random value
\* in [0, 1).  The web rand_float divides by u64::MAX as f32 and can round to
\* exactly 1.0 for seeds within 2^39 of u64::MAX; that draw is left out.
Draws(len) ==
    {js \in [1..(len - 1) -> 0..(len - 1)] : \A i \in 1..(len - 1) : js[i] <= i}

\* the Fisher-Yates loop of shuffle_playlist: for i in (1..len).rev()
RECURSIVE FisherYates(_, _, _)
FisherYates(order, i, js) ==
    IF i < 1 THEN order
    ELSE FisherYates(Swap(order, i, js[i]), i - 1, js)

\* PlaylistState::shuffle_playlist: nothing for an empty playlist, else
\* shuffle_order = (0..len) shuffled with the draws js
shuffle_playlist(p, js) ==
    LET len == Len(p.tracks)
    IN  IF len = 0 THEN p
        ELSE [p EXCEPT !.shuffle_order =
                 FisherYates([k \in 1..len |-> k - 1], len - 1, js)]

\* shuffle_order.iter().position(|&x| x == idx): the first 0-based position
\* of idx, or None
Position(order, idx) ==
    IF \E k \in 1..Len(order) : order[k] = idx
    THEN (CHOOSE k \in 1..Len(order) :
              /\ order[k] = idx
              /\ \A m \in 1..(k - 1) : order[m] # idx) - 1
    ELSE None

\* PlaylistState::get_next_index
get_next_index(p) ==
    LET len == Len(p.tracks)
        idx == p.current_index
    IN  IF len = 0 THEN None
        ELSE IF idx = None THEN 0
        ELSE IF p.is_shuffled /\ Len(p.shuffle_order) > 0
        THEN LET pos == Position(p.shuffle_order, idx)
             IN  IF pos = None THEN None
                 ELSE IF pos + 1 < Len(p.shuffle_order)
                 THEN p.shuffle_order[pos + 2]
                 ELSE None
        ELSE IF idx + 1 < len THEN idx + 1 ELSE None

\* PlaylistState::get_prev_index
get_prev_index(p) ==
    LET len == Len(p.tracks)
        idx == p.current_index
    IN  IF len = 0 THEN None
        ELSE IF idx = None THEN 0
        ELSE IF p.is_shuffled /\ Len(p.shuffle_order) > 0
        THEN LET pos == Position(p.shuffle_order, idx)
             IN  IF pos = None THEN None
                 ELSE IF pos > 0 THEN p.shuffle_order[pos] ELSE None
        ELSE IF idx > 0 THEN idx - 1 ELSE None

\* play_track: an index past the end is ignored
play_track(p, index) ==
    IF index >= Len(p.tracks) THEN p
    ELSE [p EXCEPT !.current_index = index, !.is_playing = TRUE]

\* stop_playback
stop_playback(p) == [p EXCEPT !.is_playing = FALSE]

\* play_next: the next index, else the first track of a non-empty playlist,
\* else stop
play_next(p) ==
    LET next == get_next_index(p)
    IN  IF next # None THEN play_track(p, next)
        ELSE IF Len(p.tracks) > 0 THEN play_track(p, 0)
        ELSE stop_playback(p)

\* play_previous: more than 3 seconds into the track (late) it only seeks to
\* the start; else the previous index, else stop
play_previous(p, late) ==
    LET prev == get_prev_index(p)
    IN  IF late THEN p
        ELSE IF prev # None THEN play_track(p, prev)
        ELSE stop_playback(p)

\* Vec::remove(index), index 0-based
RemoveAt(tracks, index) ==
    [k \in 1..(Len(tracks) - 1) |->
        IF k <= index THEN tracks[k] ELSE tracks[k + 1]]

CurrentAfterRemoveKeepsIndex(current, index) ==
    IF index = current THEN None ELSE current

\* remove_track's match on current_index = Some(current): the removed track
\* was current -> None; it was before the current one -> current - 1
CurrentAfterRemove(current, index) ==
    IF index = current THEN None
    ELSE IF index < current THEN current - 1
    ELSE current

\* remove_track: an index past the end is ignored.  Removing the current
\* track stops playback.  Only the web app reshuffles afterwards, with the
\* draws js, when shuffle is on.
remove_track(a, p, index, js) ==
    IF index >= Len(p.tracks) THEN p
    ELSE LET removed == [p EXCEPT !.tracks = RemoveAt(p.tracks, index)]
             current == p.current_index
             moved   ==
                 IF current = None THEN removed
                 ELSE IF index = current
                 THEN [stop_playback(removed) EXCEPT
                          !.current_index = CurrentAfterRemove(current, index)]
                 ELSE [removed EXCEPT
                          !.current_index = CurrentAfterRemove(current, index)]
         IN  IF a = "web" /\ moved.is_shuffled
             THEN shuffle_playlist(moved, js)
             ELSE moved

\* clear_playlist: only the web app clears shuffle_order
clear_playlist(a, p) ==
    LET cleared == [stop_playback(p) EXCEPT !.tracks = <<>>,
                                            !.current_index = None]
    IN  IF a = "web" THEN [cleared EXCEPT !.shuffle_order = <<>>]
        ELSE cleared

\* native trigger_file_input with the picked files names: push them, make
\* the first track current if nothing was
trigger_file_input(p, names) ==
    LET pushed == [p EXCEPT !.tracks = p.tracks \o names]
    IN  IF pushed.current_index = None /\ Len(pushed.tracks) > 0
        THEN [pushed EXCEPT !.current_index = 0]
        ELSE pushed

\* web process_pending_tracks with the pending tracks names
process_pending_tracks(p, names) ==
    IF Len(names) = 0 THEN p
    ELSE LET pushed == [p EXCEPT !.tracks = p.tracks \o names]
         IN  IF pushed.current_index = None /\ Len(pushed.tracks) > 0
             THEN [pushed EXCEPT !.current_index = 0]
             ELSE pushed

\* the names of n newly added tracks: the smallest names not in the playlist
RECURSIVE NewNames(_, _)
NewNames(used, n) ==
    IF n = 0 THEN <<>>
    ELSE LET name == CHOOSE x \in 1..(Cardinality(used) + 1) :
                         /\ x \notin used
                         /\ \A y \in 1..(x - 1) : y \in used
         IN  <<name>> \o NewNames(used \cup {name}, n - 1)

TrackNames(p) == {p.tracks[k] : k \in 1..Len(p.tracks)}

InitPlaylist ==
    /\ app \in {"native", "web"}
    /\ audio = IF app = "native" THEN NativeNew(MaxBufLen) ELSE WebNew(MaxFftLen)
    /\ last = NoCall(audio)
    /\ config = DefaultConfig
    /\ visualizer_mode = "Fractal"
    /\ source = DemoSource
    /\ particles = <<>>
    /\ audio_data = <<>>
    /\ audio_buf = <<>>
    /\ lock = "free"
    /\ pc = 1
    /\ cb = Idle
    /\ frame = NoFrame
    /\ calls = 0
    /\ fractal = NoFractal
    /\ unknown_visualizer = UnknownPleasuresNew
    /\ drawing = NoDrawing
    /\ playlist = PlaylistDefault
    /\ playlist_op = NoPlaylistOp

PlaylistUnchanged ==
    UNCHANGED <<app, audio, last, config, visualizer_mode, source, particles,
                audio_data, audio_buf, lock, pc, cb, frame, calls,
                fractal, unknown_visualizer, drawing>>

\* an operation other than remove_track takes the playlist to after
PlaylistStep(after) ==
    /\ playlist' = after
    /\ playlist_op' = NoPlaylistOp
    /\ PlaylistUnchanged

\* the shuffle button: flip is_shuffled, shuffle when it is now on (random
\* values are drawn only then)
ToggleShuffle ==
    \E js \in Draws(IF playlist.is_shuffled THEN 0 ELSE Len(playlist.tracks)) :
        LET flipped == [playlist EXCEPT !.is_shuffled = ~playlist.is_shuffled]
        IN  PlaylistStep(IF flipped.is_shuffled
                         THEN shuffle_playlist(flipped, js) ELSE flipped)

\* files are added: the file dialog of the native app, the pending tracks of
\* the web app
AddTracks ==
    \E n \in 1..2 :
        /\ Len(playlist.tracks) + n <= MaxTracks
        /\ LET names == NewNames(TrackNames(playlist), n)
           IN  PlaylistStep(IF app = "native"
                            THEN trigger_file_input(playlist, names)
                            ELSE process_pending_tracks(playlist, names))

\* web: the Play button of the URL row pushes one track and plays it
PlayUrl ==
    /\ app = "web"
    /\ Len(playlist.tracks) + 1 <= MaxTracks
    /\ LET pushed == [playlist EXCEPT !.tracks =
                         playlist.tracks \o NewNames(TrackNames(playlist), 1)]
       IN  PlaylistStep(play_track(pushed, Len(pushed.tracks) - 1))

\* web: the Queue button of the URL row only pushes one track
QueueUrl ==
    /\ app = "web"
    /\ Len(playlist.tracks) + 1 <= MaxTracks
    /\ PlaylistStep([playlist EXCEPT !.tracks =
                        playlist.tracks \o NewNames(TrackNames(playlist), 1)])

PlayTrack ==
    \E index \in 0..MaxTracks :
        PlaylistStep(play_track(playlist, index))

PlayNext == PlaylistStep(play_next(playlist))

PlayPrevious ==
    \E late \in BOOLEAN :
        PlaylistStep(play_previous(playlist, late))

\* remove_track with any index; random values are drawn only when the web
\* app reshuffles
RemoveTrack ==
    \E index \in 0..MaxTracks :
        \E js \in Draws(IF /\ app = "web"
                           /\ playlist.is_shuffled
                           /\ index < Len(playlist.tracks)
                        THEN Len(playlist.tracks) - 1 ELSE 0) :
            /\ playlist' = remove_track(app, playlist, index, js)
            /\ playlist_op' =
                   [op |-> "remove_track", index |-> index,
                    len |-> Len(playlist.tracks),
                    current |-> playlist.current_index,
                    track |-> IF playlist.current_index = None THEN 0
                              ELSE playlist.tracks[playlist.current_index + 1]]
            /\ PlaylistUnchanged

ClearPlaylist ==
    PlaylistStep(clear_playlist(app, playlist))

NextPlaylist ==
    \/ ToggleShuffle
    \/ AddTracks
    \/ PlayUrl
    \/ QueueUrl
    \/ PlayTrack
    \/ PlayNext
    \/ PlayPrevious
    \/ RemoveTrack
    \/ ClearPlaylist

SpecPlaylist == InitPlaylist /\ [][NextPlaylist]_vars

\* order holds each of the indices 0..len-1 exactly once
IsPermutation(order, len) ==
    /\ Len(order) = len
    /\ {order[k] : k \in 1..Len(order)} = 0..(len - 1)

\* C29: while is_shuffled is true, shuffle_order is a permutation of the
\* indices 0..tracks.len() after any sequence of playlist operations, so
\* get_next_index and get_prev_index never return an index >= tracks.len().
C29_ShuffleOrderIsPermutation ==
    playlist.is_shuffled =>
        /\ IsPermutation(playlist.shuffle_order, Len(playlist.tracks))
        /\ get_next_index(playlist) < Len(playlist.tracks)
        /\ get_prev_index(playlist) < Len(playlist.tracks)

\* C30: after any sequence of playlist operations current_index is None or
\* a valid index < tracks.len(); removing a track before the current one
\* keeps the same track current with its index decremented by one, and
\* removing the current track stops playback and sets current_index to None.
C30_CurrentIndexValid ==
    /\ \/ playlist.current_index = None
       \/ /\ 0 <= playlist.current_index
          /\ playlist.current_index < Len(playlist.tracks)
    /\ ( /\ playlist_op.op = "remove_track"
         /\ playlist_op.index < playlist_op.len
         /\ playlist_op.current # None ) =>
           LET current == playlist_op.current
           IN  /\ playlist_op.index < current =>
                    /\ playlist.current_index = current - 1
                    /\ playlist.tracks[current] = playlist_op.track
               /\ playlist_op.index = current =>
                    /\ playlist.current_index = None
                    /\ ~playlist.is_playing

\* the first of three tracks has been removed while the third was playing
C30_Witness ==
    /\ playlist_op.op = "remove_track"
    /\ playlist_op.len = 3
    /\ playlist_op.current = 2
    /\ playlist_op.index = 0
    /\ playlist.current_index = 1
    /\ playlist.is_playing

====
